---- MODULE Spec2Model ----
(***************************************************************************)
(* Filya health tracker: the day status classifier (status.ts), the        *)
(* effective-dated meal defaults (db.ts), the day/trends API (app.ts), the *)
(* Today screen and the CSV import script (import.ts), modelled as state   *)
(* machines over the SQLite tables.                                        *)
(*                                                                         *)
(* Dates are YYYY-MM-DD strings in the code, compared as TEXT by SQLite.   *)
(* A date is modelled as the number of its day, day 1 being 2025-01-01:    *)
(* for years of four digits the TEXT order is the order of the days, and   *)
(* toISOString gives the dates of other years a number that keeps their    *)
(* place in the TEXT order.                                                *)
(***************************************************************************)
EXTENDS Integers, Sequences, FiniteSets, Bags, TLC

VARIABLES
    dayData,       \* the DayData handed to calculateDayStatus
    ret,        \* the DayStatus it returned ("none" before the first call)
    prev,       \* the DayStatus returned for the dayData before the last change
    cleared,    \* which triggering condition the last change cleared
    db,         \* the SQLite database: one field per table
    nOps,       \* number of requests served so far
    lastOp,     \* the last request served and what it answered
    lastWrite,  \* per (meal_slot, effective_date): {amount of the last setDefaultAmount call}
    currentDate,   \* Today screen: the date displayed
    pageData,      \* Today screen: dayData, <<>> for null, else <<the DayData>>
    loading,       \* Today screen: set by loadData when it begins, cleared when it ends
    error,         \* Today screen: the last loadData to end has failed
    showAddMed,    \* Today screen: the dialog that adds a medication is open
    saveTimeout,   \* Today screen: <<data>> while the auto-save timer is set, else <<>>
    edits,         \* the edits made on the Today screen, in order
    sent,          \* the updateDayData requests sent, in order
    pendingPuts,   \* indices in sent of the requests the server has not served yet
    putAnswers,    \* the answers of updateDayData requests on their way to the page
    pendingGets,   \* the getDayData requests not answered yet: a bag of [date, from, answer]
    pendingMeds,   \* the addMedication and deleteMedication requests not answered yet
    nNavs,         \* number of date changes made on the Today screen
    nMeds,         \* number of medications added or removed on the Today screen
    nFails,        \* number of requests of the Today screen that failed
    nClicks,       \* number of clicks, changes and failed requests of the Today screen
    imp,           \* the import script: its position and its local variables
    srv            \* the server beside the import script: the request it serves and its position

vars == <<dayData, ret, prev, cleared, db, nOps, lastOp, lastWrite,
          currentDate, pageData, loading, error, showAddMed, saveTimeout, edits, sent,
          pendingPuts, putAnswers, pendingGets, pendingMeds, nNavs, nMeds,
          nFails, nClicks, imp, srv>>
importVars == <<imp, srv>>
clientVars == <<currentDate, pageData, loading, error, showAddMed, saveTimeout, edits,
                sent, pendingPuts, putAnswers, pendingGets, pendingMeds, nNavs,
                nMeds, nFails, nClicks>>
statusVars == <<dayData, ret, prev, cleared>>
storeVars == <<db, nOps, lastOp, lastWrite>>

----------------------------------------------------------------------------
(* Bounds of the model *)

MaxCount == 2      \* vomited / peed / pooped range over 0..MaxCount
MaxMeals == 2      \* longest meal sequence handed to the classifier
MaxDate == 3       \* dates are 1..MaxDate
MaxCalls == 3      \* setDefaultAmount calls in one run of SpecDefaults
MaxOps == 2        \* requests in one run of Spec

Counts == 0..MaxCount
Dates == 1..MaxDate
MealStatuses == {"ate_fully", "not_fully", "skipped"}
DayStatuses == {"RED", "ORANGE", "GREEN"}
Amounts == {20, 30}

----------------------------------------------------------------------------
(* status.ts: calculateDayStatus *)

MealSeqs == UNION {[1..n -> [status : MealStatuses]] : n \in 0..MaxMeals}
DayDataSet == [vomited : Counts, peed : Counts, pooped : Counts, meals : MealSeqs]

\* meals.some(m => m.status !== 'ate_fully')
hasMissedMeal(meals) == \E i \in 1..Len(meals) : meals[i].status # "ate_fully"

\* Mutant: rule 1 forgets the missed meal.
calculateDayStatus_noMealInRule1(d) ==
    LET hasVomit == d.vomited > 0
        noPee == d.peed = 0
        noPoop == d.pooped = 0
        missed == hasMissedMeal(d.meals)
    IN  IF hasVomit /\ (noPee \/ noPoop) THEN "RED"
        ELSE IF noPee /\ noPoop THEN "RED"
        ELSE IF hasVomit THEN "ORANGE"
        ELSE IF noPee \/ noPoop THEN "ORANGE"
        ELSE IF missed THEN "ORANGE"
        ELSE "GREEN"

\* Mutant: the second RED rule is missing.
calculateDayStatus_noRule2(d) ==
    LET hasVomit == d.vomited > 0
        noPee == d.peed = 0
        noPoop == d.pooped = 0
        missed == hasMissedMeal(d.meals)
    IN  IF hasVomit /\ (noPee \/ noPoop \/ missed) THEN "RED"
        ELSE IF hasVomit THEN "ORANGE"
        ELSE IF noPee \/ noPoop THEN "ORANGE"
        ELSE IF missed THEN "ORANGE"
        ELSE "GREEN"

\* Mutant: a day with no meal entries counts as a day with a missed meal.
calculateDayStatus_emptyIsMissed(d) ==
    LET hasVomit == d.vomited > 0
        noPee == d.peed = 0
        noPoop == d.pooped = 0
        missed == Len(d.meals) = 0 \/ hasMissedMeal(d.meals)
    IN  IF hasVomit /\ (noPee \/ noPoop \/ missed) THEN "RED"
        ELSE IF noPee /\ noPoop THEN "RED"
        ELSE IF hasVomit THEN "ORANGE"
        ELSE IF noPee \/ noPoop THEN "ORANGE"
        ELSE IF missed THEN "ORANGE"
        ELSE "GREEN"

\* Mutant: rule 1 tests for the absence of a missed meal.
calculateDayStatus_negatedMeal(d) ==
    LET hasVomit == d.vomited > 0
        noPee == d.peed = 0
        noPoop == d.pooped = 0
        missed == hasMissedMeal(d.meals)
    IN  IF hasVomit /\ (noPee \/ noPoop \/ ~missed) THEN "RED"
        ELSE IF noPee /\ noPoop THEN "RED"
        ELSE IF hasVomit THEN "ORANGE"
        ELSE IF noPee \/ noPoop THEN "ORANGE"
        ELSE IF missed THEN "ORANGE"
        ELSE "GREEN"

calculateDayStatus(d) ==
    LET hasVomit == d.vomited > 0
        noPee == d.peed = 0
        noPoop == d.pooped = 0
        missed == hasMissedMeal(d.meals)
    IN  IF hasVomit /\ (noPee \/ noPoop \/ missed) THEN "RED"
        ELSE IF noPee /\ noPoop THEN "RED"
        ELSE IF hasVomit THEN "ORANGE"
        ELSE IF noPee \/ noPoop THEN "ORANGE"
        ELSE IF missed THEN "ORANGE"
        ELSE "GREEN"

----------------------------------------------------------------------------
(* db.ts: the tables and the query functions.  A table is the set of its  *)
(* rows; meal_default_history is the sequence of its rows in rowid order.  *)
(* Columns that no query of status.ts reads (comments, drank, daily_notes, *)
(* actual_amount, created_at) are left out of the rows.                    *)

NumSeededMedications == 4
NumSlots == 4

\* meal_config: the slots seeded by initializeDatabase.
MealSlots == 1..NumSlots

\* The medications initializeDatabase seeds, in the order of their ids.
SeededNames == <<"Normolact", "Normolact", "Renalvet", "FortiFlora">>
SeededLabels == <<"morning", "evening", "evening with food", "evening with food">>

SeededMedication(i) ==
    [id |-> i, name |-> SeededNames[i], time_label |-> SeededLabels[i],
     sort_order |-> i, is_active |-> 1]

\* initializeDatabase on a fresh file: no rows but the seeded configuration.
EmptyDb ==
    [medications |-> {SeededMedication(i) : i \in 1..NumSeededMedications},
     daily_records |-> {},
     meal_entries |-> {},
     medication_entries |-> {},
     meal_default_history |-> <<>>]

RecordFields == {"teeth_brushed", "vomited", "peed", "pooped"}

\* INSERT INTO daily_records (date) VALUES (?): every other column takes its
\* DEFAULT, day_status 'GREEN' included.
NewDailyRecord(date) ==
    [date |-> date, teeth_brushed |-> 0, vomited |-> 0, peed |-> 0, pooped |-> 0,
     day_status |-> "GREEN"]

recordsOf(d, date) == {r \in d.daily_records : r.date = date}

getOrCreateDailyRecord(d, date) ==
    IF recordsOf(d, date) # {}
    THEN d
    ELSE [d EXCEPT !.daily_records = @ \cup {NewDailyRecord(date)}]

\* One row with the columns named in fields set from data.
patchRow(r, data, fields) ==
    [c \in DOMAIN r |-> IF c \in fields THEN data[c] ELSE r[c]]

\* Mutant: the UPDATE has no WHERE clause.
updateDailyRecord_allDates(d, date, data) ==
    LET d1 == getOrCreateDailyRecord(d, date)
        fields == DOMAIN data \ {"id", "date"}
    IN  IF fields = {}
        THEN d1
        ELSE [d1 EXCEPT !.daily_records = {patchRow(r, data, fields) : r \in @}]

updateDailyRecord(d, date, data) ==
    LET d1 == getOrCreateDailyRecord(d, date)
        fields == DOMAIN data \ {"id", "date"}
    IN  IF fields = {}
        THEN d1
        ELSE [d1 EXCEPT !.daily_records =
                 {IF r.date = date THEN patchRow(r, data, fields) ELSE r : r \in @}]

\* addMedication: sort_order is MAX(sort_order) + 1 (1 on an empty table), the
\* id is the next AUTOINCREMENT value; no row of medications is ever deleted,
\* so that is the number of rows plus one.
maxSortOrder(d) ==
    LET orders == {m.sort_order : m \in d.medications}
    IN  IF orders = {} THEN 0 ELSE CHOOSE x \in orders : \A y \in orders : y <= x

insertMedication(d, name, timeLabel, sortOrder) ==
    [d EXCEPT !.medications =
        @ \cup {[id |-> Cardinality(d.medications) + 1, name |-> name,
                 time_label |-> timeLabel, sort_order |-> sortOrder, is_active |-> 1]}]

addMedication(d, name, timeLabel) ==
    insertMedication(d, name, timeLabel, maxSortOrder(d) + 1)

\* deactivateMedication: UPDATE medications SET is_active = 0 WHERE id = ?
deactivateMedication(d, id) ==
    [d EXCEPT !.medications =
        {IF m.id = id THEN [m EXCEPT !.is_active = 0] ELSE m : m \in @}]

\* The FOREIGN KEY of medication_entries.medication_id: the statement throws.
\* The rows of medications ORDER BY sort_order. Two rows have the same
\* sort_order only when a POST /api/medications is served between the SELECT
\* MAX and the INSERT of the import's addMedication; such rows go by id here,
\* and the list is read only as a set once they exist.
RECURSIVE rowsBySortOrder(_)
rowsBySortOrder(rows) ==
    IF rows = {} THEN <<>>
    ELSE LET first == CHOOSE m \in rows :
                         \A x \in rows : m.sort_order < x.sort_order
                                           \/ (m.sort_order = x.sort_order /\ m.id <= x.id)
         IN  <<first>> \o rowsBySortOrder(rows \ {first})

\* getMedications: the active rows, every row when includeInactive.
getMedications(d, includeInactive) ==
    IF includeInactive THEN rowsBySortOrder(d.medications)
    ELSE rowsBySortOrder({m \in d.medications : m.is_active = 1})

\* The set of the rows of a list.
Range(seq) == {seq[i] : i \in 1..Len(seq)}

medicationExists(d, medicationId) == \E m \in d.medications : m.id = medicationId

upsertMedicationEntry(d, date, medicationId, taken) ==
    LET hit == {e \in d.medication_entries :
                    e.date = date /\ e.medication_id = medicationId}
        t == IF taken THEN 1 ELSE 0
    IN  IF hit = {}
        THEN [d EXCEPT !.medication_entries =
                 @ \cup {[date |-> date, medication_id |-> medicationId, taken |-> t]}]
        ELSE [d EXCEPT !.medication_entries =
                 {IF e \in hit THEN [e EXCEPT !.taken = t] ELSE e : e \in @}]

\* Mutant: INSERT OR IGNORE, the entry of a key that has one is left as it is.
upsertMealEntry_ignore(d, date, mealSlot, status) ==
    LET hit == {e \in d.meal_entries : e.date = date /\ e.meal_slot = mealSlot}
    IN  IF hit = {}
        THEN [d EXCEPT !.meal_entries =
                 @ \cup {[date |-> date, meal_slot |-> mealSlot, status |-> status]}]
        ELSE d

upsertMealEntry(d, date, mealSlot, status) ==
    LET hit == {e \in d.meal_entries : e.date = date /\ e.meal_slot = mealSlot}
    IN  IF hit = {}
        THEN [d EXCEPT !.meal_entries =
                 @ \cup {[date |-> date, meal_slot |-> mealSlot, status |-> status]}]
        ELSE [d EXCEPT !.meal_entries =
                 {IF e \in hit THEN [e EXCEPT !.status = status] ELSE e : e \in @}]

\* Rows of the history that the WHERE clause of getEffectiveDefaultAmount keeps.
versionsUpTo(d, mealSlot, date) ==
    {i \in 1..Len(d.meal_default_history) :
        /\ d.meal_default_history[i].meal_slot = mealSlot
        /\ d.meal_default_history[i].effective_date <= date}

\* Mutant: effective_date < ?, a version dated on the query date is left out.
getEffectiveDefaultAmount_strict(d, mealSlot, date) ==
    LET h == d.meal_default_history
        rows == {i \in versionsUpTo(d, mealSlot, date) : h[i].effective_date < date}
    IN  IF rows = {}
        THEN 0
        ELSE h[CHOOSE i \in rows :
                  \A j \in rows : h[j].effective_date <= h[i].effective_date].default_amount

\* Mutant: no ORDER BY, the row inserted last wins.
getEffectiveDefaultAmount_lastInserted(d, mealSlot, date) ==
    LET h == d.meal_default_history
        rows == versionsUpTo(d, mealSlot, date)
    IN  IF rows = {}
        THEN 0
        ELSE h[CHOOSE i \in rows : \A j \in rows : j <= i].default_amount

\* ORDER BY effective_date DESC LIMIT 1; result?.default_amount ?? 0
getEffectiveDefaultAmount(d, mealSlot, date) ==
    LET h == d.meal_default_history
        rows == versionsUpTo(d, mealSlot, date)
    IN  IF rows = {}
        THEN 0
        ELSE h[CHOOSE i \in rows :
                  \A j \in rows : h[j].effective_date <= h[i].effective_date].default_amount

\* Mutant: a plain INSERT OR IGNORE, the first amount written for a pair stays.
setDefaultAmount_ignore(d, mealSlot, amount, effectiveDate) ==
    LET h == d.meal_default_history
        hit == {i \in 1..Len(h) :
                   h[i].meal_slot = mealSlot /\ h[i].effective_date = effectiveDate}
    IN  IF hit = {}
        THEN [d EXCEPT !.meal_default_history =
                 Append(@, [meal_slot |-> mealSlot, default_amount |-> amount,
                            effective_date |-> effectiveDate])]
        ELSE d

\* Mutant: the conflict target is meal_slot alone, one version per slot.
setDefaultAmount_perSlot(d, mealSlot, amount, effectiveDate) ==
    LET h == d.meal_default_history
        hit == {i \in 1..Len(h) : h[i].meal_slot = mealSlot}
    IN  IF hit = {}
        THEN [d EXCEPT !.meal_default_history =
                 Append(@, [meal_slot |-> mealSlot, default_amount |-> amount,
                            effective_date |-> effectiveDate])]
        ELSE [d EXCEPT !.meal_default_history =
                 [i \in 1..Len(h) |->
                     IF i \in hit
                     THEN [h[i] EXCEPT !.default_amount = amount,
                                       !.effective_date = effectiveDate]
                     ELSE h[i]]]

\* INSERT ... ON CONFLICT(meal_slot, effective_date) DO UPDATE SET default_amount
setDefaultAmount(d, mealSlot, amount, effectiveDate) ==
    LET h == d.meal_default_history
        hit == {i \in 1..Len(h) :
                   h[i].meal_slot = mealSlot /\ h[i].effective_date = effectiveDate}
    IN  IF hit = {}
        THEN [d EXCEPT !.meal_default_history =
                 Append(@, [meal_slot |-> mealSlot, default_amount |-> amount,
                            effective_date |-> effectiveDate])]
        ELSE [d EXCEPT !.meal_default_history =
                 [i \in 1..Len(h) |->
                     IF i \in hit THEN [h[i] EXCEPT !.default_amount = amount] ELSE h[i]]]

\* Mutant: ORDER BY date DESC where the query orders ascending.
RECURSIVE rowsByDate_descending(_)
rowsByDate_descending(rows) ==
    IF rows = {} THEN <<>>
    ELSE LET r == CHOOSE x \in rows : \A y \in rows : x.date >= y.date
         IN  <<r>> \o rowsByDate_descending(rows \ {r})

\* The rows of a table ORDER BY date.
RECURSIVE rowsByDate(_)
rowsByDate(rows) ==
    IF rows = {} THEN <<>>
    ELSE LET r == CHOOSE x \in rows : \A y \in rows : x.date <= y.date
         IN  <<r>> \o rowsByDate(rows \ {r})

Reverse(s) == [i \in 1..Len(s) |-> s[Len(s) + 1 - i]]

\* Mutant: the DESC of the ORDER BY is dropped.
rowsByDateDesc_ascending(rows) == rowsByDate(rows)

\* The rows of a table ORDER BY date DESC.
rowsByDateDesc(rows) == Reverse(rowsByDate(rows))

\* The rows of meal_entries of one date.
mealEntriesOn(d, date) == {e \in d.meal_entries : e.date = date}

\* Every order in which a SELECT without ORDER BY may return the given rows.
rowsInEveryOrder(rows) ==
    LET n == Cardinality(rows)
    IN  {s \in [1..n -> rows] : \A i, j \in 1..n : s[i] = s[j] => i = j}

\* SELECT meal_slot, status FROM meal_entries WHERE date = ?, for every date:
\* one list of rows for each date, in one of the orders the query may use.
RECURSIVE selectionsFrom(_, _)
selectionsFrom(d, date) ==
    IF date > MaxDate THEN {<<>>}
    ELSE {<<s>> \o rest : s \in rowsInEveryOrder(mealEntriesOn(d, date)),
                          rest \in selectionsFrom(d, date + 1)}

MealSelections(d) == selectionsFrom(d, 1)

\* getMealEntries: SELECT * FROM meal_entries WHERE date = ? ORDER BY meal_slot
RECURSIVE rowsBySlot(_)
rowsBySlot(rows) ==
    IF rows = {} THEN <<>>
    ELSE LET first == CHOOSE e \in rows : \A x \in rows : e.meal_slot <= x.meal_slot
         IN  <<first>> \o rowsBySlot(rows \ {first})

getMealEntries(d, date) == rowsBySlot(mealEntriesOn(d, date))

\* getFullDayData: the record (created when missing), the seeded medications
\* with their entries, the configured slots with entry and effective default.
\* Mutant: the view shows the newest default of each slot, whatever the date.
getFullDayData_latestDefault(d, date) ==
    LET d1 == getOrCreateDailyRecord(d, date)
        record == CHOOSE r \in recordsOf(d1, date) : TRUE
        medicationEntries == {e \in d1.medication_entries : e.date = date}
        mealEntries == Range(getMealEntries(d1, date))
    IN  [db |-> d1,
         record |-> record,
         medications |->
             [id \in {m.id : m \in Range(getMedications(d1, FALSE))} |->
                 LET hit == {e \in medicationEntries : e.medication_id = id}
                 IN  IF hit = {} THEN 0 ELSE (CHOOSE e \in hit : TRUE).taken],
         meals |->
             [slot \in MealSlots |->
                 LET hit == {e \in mealEntries : e.meal_slot = slot}
                 IN  [default_amount |-> getEffectiveDefaultAmount(d1, slot, MaxDate),
                      status |-> IF hit = {} THEN "ate_fully"
                                 ELSE (CHOOSE e \in hit : TRUE).status]]]

getFullDayData(d, date) ==
    LET d1 == getOrCreateDailyRecord(d, date)
        record == CHOOSE r \in recordsOf(d1, date) : TRUE
        medicationEntries == {e \in d1.medication_entries : e.date = date}
        mealEntries == Range(getMealEntries(d1, date))
    IN  [db |-> d1,
         record |-> record,
         medications |->
             [id \in {m.id : m \in Range(getMedications(d1, FALSE))} |->
                 LET hit == {e \in medicationEntries : e.medication_id = id}
                 IN  IF hit = {} THEN 0 ELSE (CHOOSE e \in hit : TRUE).taken],
         meals |->
             [slot \in MealSlots |->
                 LET hit == {e \in mealEntries : e.meal_slot = slot}
                 IN  [default_amount |-> getEffectiveDefaultAmount(d1, slot, date),
                      status |-> IF hit = {} THEN "ate_fully"
                                 ELSE (CHOOSE e \in hit : TRUE).status]]]

----------------------------------------------------------------------------
(* status.ts: the stored day_status and the trends *)

\* SELECT status FROM meal_entries WHERE date = ?
\* in each of the orders the query may use.
mealStatusRows(d, date) ==
    {[i \in 1..Len(rows) |-> [status |-> rows[i].status]] :
        rows \in rowsInEveryOrder(mealEntriesOn(d, date))}

\* The classification of a stored row from its raw counts and meal entries.
\* calculateDayStatus reads the meals through some(), so every order of the
\* rows gives the one status.
classifyRecord(d, r) ==
    LET outcomes == {calculateDayStatus([vomited |-> r.vomited, peed |-> r.peed,
                                         pooped |-> r.pooped, meals |-> m]) :
                        m \in mealStatusRows(d, r.date)}
    IN  CHOOSE status \in outcomes : TRUE

\* updateDayStatus: 'GREEN' and no write when the date has no record.
\* Mutant: a missing record is created (with the column default) and the
\* default is returned without classifying.
updateDayStatus_createsMissing(d, date) ==
    IF recordsOf(d, date) = {}
    THEN [db |-> getOrCreateDailyRecord(d, date), status |-> "GREEN"]
    ELSE LET record == CHOOSE r \in recordsOf(d, date) : TRUE
             status == classifyRecord(d, record)
         IN  [db |-> [d EXCEPT !.daily_records =
                         {IF r.date = date THEN [r EXCEPT !.day_status = status] ELSE r
                             : r \in @}],
              status |-> status]

updateDayStatus(d, date) ==
    IF recordsOf(d, date) = {}
    THEN [db |-> d, status |-> "GREEN"]
    ELSE LET record == CHOOSE r \in recordsOf(d, date) : TRUE
             status == classifyRecord(d, record)
         IN  [db |-> [d EXCEPT !.daily_records =
                         {IF r.date = date THEN [r EXCEPT !.day_status = status] ELSE r
                             : r \in @}],
              status |-> status]

----------------------------------------------------------------------------
(* Dates. A day is a number: day 1 is 2025-01-01. The store holds a date   *)
(* as the TEXT 'YYYY-MM-DD' and compares dates as TEXT.                    *)

\* The days from 1970-01-01 to day 0, and the days a Date holds on each side
\* of 1970-01-01.
Day0 == 20088
MaxTime == 100000000

\* The day of a year, month and day of the proleptic Gregorian calendar.
daysFromCivil(year, month, day) ==
    LET y == IF month <= 2 THEN year - 1 ELSE year
        era == y \div 400
        yoe == y - era * 400
        mp == IF month > 2 THEN month - 3 ELSE month + 9
        doy == (153 * mp + 2) \div 5 + day - 1
        doe == yoe * 365 + yoe \div 4 - yoe \div 100 + doy
    IN  era * 146097 + doe - 719468 - Day0

\* The year, month and day of a day.
civilFromDays(n) ==
    LET z == n + Day0 + 719468
        era == z \div 146097
        doe == z - era * 146097
        yoe == (doe - doe \div 1460 + doe \div 36524 - doe \div 146096) \div 365
        doy == doe - (365 * yoe + yoe \div 4 - yoe \div 100)
        mp == (5 * doy + 2) \div 153
        month == IF mp < 10 THEN mp + 3 ELSE mp - 9
    IN  [year |-> yoe + era * 400 + (IF month <= 2 THEN 1 ELSE 0),
         month |-> month,
         day |-> doy - (153 * mp + 2) \div 5 + 1]

\* toISOString().split('T')[0] prints a year above 9999 as '+' and six digits
\* and a year below 0 as '-' and six digits. As TEXT, '+' sorts before '-'
\* and both before a digit, and the years after '-' sort by their size. The
\* TEXT of a day printed with four digits is modelled by the day, and the
\* TEXT of any other day by a number that lies where the TEXT sorts: below
\* every day of four digits, the '+' below the '-'. The days printed with a
\* year of four digits are 0000-01-01 to 9999-12-31.
toISOString(n) ==
    LET c == civilFromDays(n)
        first == daysFromCivil(0, 1, 1)
        last == daysFromCivil(9999, 12, 31)
        span == 372 * 300000
    IN  IF first <= n /\ n <= last THEN n
        ELSE IF c.year < 0
             THEN first - span + (-c.year * 372 + c.month * 31 + c.day)
             ELSE first - 2 * span + (c.year * 372 + c.month * 31 + c.day)

\* WHERE date BETWEEN ? AND ?
\* Mutant: the range has no upper end (date >= ?).
between_openEnded(rows, startDate, endDate) ==
    {r \in rows : startDate <= r.date}

\* Mutant: the end date is left out (date >= ? AND date < ?).
between_exclusiveEnd(rows, startDate, endDate) ==
    {r \in rows : startDate <= r.date /\ r.date < endDate}

\* WHERE date BETWEEN ? AND ?
between(rows, startDate, endDate) ==
    {r \in rows : startDate <= r.date /\ r.date <= endDate}

\* Mutant: the status query leaves the start date out (date > ?).
statusRows_exclusive(d, startDate, endDate) ==
    {r \in d.daily_records : startDate < r.date /\ r.date <= endDate}

\* The rows the "Days by status" query groups.
statusRows(d, startDate, endDate) == between(d.daily_records, startDate, endDate)

getTrendsSummary(d, startDate, endDate) ==
    LET days == between(d.daily_records, startDate, endDate)
        meals == between(d.meal_entries, startDate, endDate)
        totalDays == Cardinality({r.date : r \in days})
        byStatus == statusRows(d, startDate, endDate)
        vomitDays == Cardinality({r \in days : r.vomited > 0})
        noPeeDays == rowsByDateDesc({r \in days : r.peed = 0})
        noPoopDays == rowsByDateDesc({r \in days : r.pooped = 0})
        mealDates == rowsByDate({[date |-> x] : x \in {e.date : e \in meals}})
        vomitRows == rowsByDate(days)
    IN  [period |-> [start |-> startDate, end |-> endDate],
         totalDays |-> totalDays,
         statusCounts |->
             [RED |-> Cardinality({r \in byStatus : r.day_status = "RED"}),
              ORANGE |-> Cardinality({r \in byStatus : r.day_status = "ORANGE"}),
              GREEN |-> Cardinality({r \in byStatus : r.day_status = "GREEN"})],
         vomiting |->
             [daysWithVomit |-> vomitDays,
              daysWithoutVomit |-> totalDays - vomitDays],
         peePoop |->
             [peeDays |-> Cardinality({r \in days : r.peed > 0}),
              poopDays |-> Cardinality({r \in days : r.pooped > 0}),
              noPeeDates |-> [i \in 1..Len(noPeeDays) |-> noPeeDays[i].date],
              noPoopDates |-> [i \in 1..Len(noPoopDays) |-> noPoopDays[i].date]],
         meals |->
             [total |-> Cardinality(meals),
              missed |-> Cardinality({e \in meals : e.status # "ate_fully"})],
         charts |->
             [dailyMeals |->
                 [i \in 1..Len(mealDates) |->
                     [date |-> mealDates[i].date,
                      missed |-> Cardinality({e \in meals :
                                     e.date = mealDates[i].date /\ e.status # "ate_fully"})]],
              dailyVomit |->
                 [i \in 1..Len(vomitRows) |->
                     [date |-> vomitRows[i].date, vomited |-> vomitRows[i].vomited]]]]

\* const mealLabels = ['', 'morning', 'day', 'evening', 'night']
mealLabels == <<"morning", "day", "evening", "night">>

\* getDayIssues: an issue line is the tuple of its parts, <<"Vomit", n>> for
\* `Vomit: ${n}`, <<"Meal", slot, label>> for the line of a missed meal.
\* meals is the list the SELECT on meal_entries of the date returned.
\* Mutant: the missed meals are left out of the issues.
getDayIssues_noMeals(d, date, meals) ==
    IF recordsOf(d, date) = {}
    THEN <<>>
    ELSE LET record == CHOOSE r \in recordsOf(d, date) : TRUE
         IN  (IF record.vomited > 0 THEN << <<"Vomit", record.vomited>> >> ELSE <<>>)
             \o (IF record.peed = 0 THEN << <<"No pee">> >> ELSE <<>>)
             \o (IF record.pooped = 0 THEN << <<"No poop">> >> ELSE <<>>)

getDayIssues(d, date, meals) ==
    IF recordsOf(d, date) = {}
    THEN <<>>
    ELSE LET record == CHOOSE r \in recordsOf(d, date) : TRUE
             notEaten(m) == m.status # "ate_fully"
             missedMeals == SelectSeq(meals, notEaten)
         IN  (IF record.vomited > 0 THEN << <<"Vomit", record.vomited>> >> ELSE <<>>)
             \o (IF record.peed = 0 THEN << <<"No pee">> >> ELSE <<>>)
             \o (IF record.pooped = 0 THEN << <<"No poop">> >> ELSE <<>>)
             \o [i \in 1..Len(missedMeals) |->
                    <<"Meal", missedMeals[i].meal_slot,
                      mealLabels[missedMeals[i].meal_slot]>>]

\* getProblemDays: WHERE date BETWEEN ? AND ? AND day_status != 'GREEN'
\* ORDER BY date DESC, each with its issues; select[date] is the list the
\* SELECT on meal_entries of getDayIssues returns for the date.
\* Mutant: the list is ordered oldest first.
getProblemDays_ascending(d, startDate, endDate, select) ==
    LET problemDays == rowsByDate({r \in between(d.daily_records, startDate, endDate) :
                                      r.day_status # "GREEN"})
    IN  [i \in 1..Len(problemDays) |->
            [date |-> problemDays[i].date,
             status |-> problemDays[i].day_status,
             issues |-> getDayIssues(d, problemDays[i].date,
                                     select[problemDays[i].date])]]

getProblemDays(d, startDate, endDate, select) ==
    LET problemDays == rowsByDateDesc({r \in between(d.daily_records, startDate, endDate) :
                                          r.day_status # "GREEN"})
    IN  [i \in 1..Len(problemDays) |->
            [date |-> problemDays[i].date,
             status |-> problemDays[i].day_status,
             issues |-> getDayIssues(d, problemDays[i].date,
                                     select[problemDays[i].date])]]

NoOp == [op |-> "none", date |-> 0, slot |-> 0, amount |-> 0, ok |-> TRUE]
\* No setDefaultAmount call was made yet for any pair.
NoWrites == [p \in MealSlots \X Dates |-> {}]

----------------------------------------------------------------------------
(* SpecStatus: the classifier applied to every input, then re-applied      *)
(* after one triggering condition of the input is cleared                  *)

\* The import script is not running.
NotStarted ==
    [pc |-> "idle", file |-> <<>>, line |-> 0, ids |-> <<>>, k |-> 0, maxOrder |-> 0,
     record |-> [vomited |-> 0, peed |-> 0, pooped |-> 0], status |-> "GREEN",
     imported |-> 0, errors |-> 0]

\* The server is between two requests.
Idle ==
    [pc |-> "idle", op |-> "none", date |-> 0,
     body |-> [record |-> <<>>, medications |-> <<>>, meals |-> <<>>],
     stage |-> "none", k |-> 0, record |-> [vomited |-> 0, peed |-> 0, pooped |-> 0],
     status |-> "GREEN", maxOrder |-> 0]

NoImport == imp = NotStarted /\ srv = Idle

\* No Today screen is open.
NoClient ==
    /\ currentDate = 0
    /\ pageData = <<>>
    /\ loading = FALSE
    /\ error = FALSE
    /\ showAddMed = FALSE
    /\ saveTimeout = <<>>
    /\ edits = <<>>
    /\ sent = <<>>
    /\ pendingPuts = {}
    /\ putAnswers = {}
    /\ pendingGets = EmptyBag
    /\ pendingMeds = EmptyBag
    /\ nNavs = 0
    /\ nMeds = 0
    /\ nFails = 0
    /\ nClicks = 0

InitStatus ==
    /\ NoClient
    /\ NoImport
    /\ dayData \in DayDataSet
    /\ ret = "none"
    /\ prev = "none"
    /\ cleared = "none"
    /\ db = EmptyDb
    /\ nOps = 0
    /\ lastOp = NoOp
    /\ lastWrite = NoWrites

Classify ==
    /\ ret = "none"
    /\ ret' = calculateDayStatus(dayData)
    /\ UNCHANGED <<dayData, prev, cleared, storeVars, clientVars, importVars>>

Reclassify(d, what) ==
    /\ dayData' = d
    /\ prev' = ret
    /\ ret' = calculateDayStatus(d)
    /\ cleared' = what
    /\ UNCHANGED <<storeVars, clientVars, importVars>>

ClearVomit ==
    /\ ret # "none"
    /\ dayData.vomited > 0
    /\ Reclassify([dayData EXCEPT !.vomited = 0], "vomited")

ClearNoPee ==
    /\ ret # "none"
    /\ dayData.peed = 0
    /\ \E n \in 1..MaxCount : Reclassify([dayData EXCEPT !.peed = n], "peed")

ClearNoPoop ==
    /\ ret # "none"
    /\ dayData.pooped = 0
    /\ \E n \in 1..MaxCount : Reclassify([dayData EXCEPT !.pooped = n], "pooped")

ClearMissedMeal ==
    /\ ret # "none"
    /\ \E i \in 1..Len(dayData.meals) :
        /\ dayData.meals[i].status # "ate_fully"
        /\ Reclassify([dayData EXCEPT !.meals[i].status = "ate_fully"], "meal")

NextStatus == Classify \/ ClearVomit \/ ClearNoPee \/ ClearNoPoop \/ ClearMissedMeal

SpecStatus == InitStatus /\ [][NextStatus]_vars

----------------------------------------------------------------------------
(* Claims about the classifier *)

Severity(s) == CASE s = "GREEN" -> 0 [] s = "ORANGE" -> 1 [] s = "RED" -> 2

anyMissed(d) == {i \in 1..Len(d.meals) : d.meals[i].status # "ate_fully"} # {}

\* The six rules of the specification, in order; a rule is <<condition, status>>.
OrderedRules(d) ==
    << <<d.vomited > 0 /\ (d.peed = 0 \/ d.pooped = 0 \/ anyMissed(d)), "RED">>,
       <<d.peed = 0 /\ d.pooped = 0, "RED">>,
       <<d.vomited > 0, "ORANGE">>,
       <<d.peed = 0 \/ d.pooped = 0, "ORANGE">>,
       <<anyMissed(d), "ORANGE">>,
       <<TRUE, "GREEN">> >>

FirstMatch(rules) ==
    LET i == CHOOSE k \in 1..Len(rules) :
                 rules[k][1] /\ \A j \in 1..(k - 1) : ~rules[j][1]
    IN  rules[i][2]

\* C1: for every input the classifier returns the status of the first of the
\* six ordered rules whose condition holds.
C1_OrderedRules == ret # "none" => ret = FirstMatch(OrderedRules(dayData))

\* A call decided by rule 1 through the missed meal alone.
C1_Witness ==
    /\ ret = "RED"
    /\ dayData.vomited > 0 /\ dayData.peed > 0 /\ dayData.pooped > 0
    /\ anyMissed(dayData)

\* C2: whenever peed = 0 and pooped = 0 the classifier returns RED, whatever
\* the vomit count and the meals are.
C2_NoEliminationIsRed ==
    (ret # "none" /\ dayData.peed = 0 /\ dayData.pooped = 0) => ret = "RED"

\* No pee and no poop, no vomit, every meal eaten: RED by rule 2 alone.
C2_Witness ==
    /\ ret = "RED"
    /\ dayData.peed = 0 /\ dayData.pooped = 0 /\ dayData.vomited = 0
    /\ Len(dayData.meals) > 0 /\ ~anyMissed(dayData)

\* C3: the classifier returns GREEN exactly when vomited = 0, peed >= 1,
\* pooped >= 1 and every meal is ate_fully; an empty meal sequence has no
\* missed meal.
C3_GreenIff ==
    ret # "none" =>
        (ret = "GREEN" <=>
            /\ dayData.vomited = 0
            /\ dayData.peed >= 1
            /\ dayData.pooped >= 1
            /\ \A i \in 1..Len(dayData.meals) : dayData.meals[i].status = "ate_fully")

\* A GREEN day with no meal entries at all.
C3_Witness ==
    /\ ret = "GREEN"
    /\ Len(dayData.meals) = 0

\* C4: clearing one triggering condition, all else fixed, never yields a
\* status of higher severity than before.
C4_Monotone ==
    cleared # "none" => Severity(ret) <= Severity(prev)

\* A day that went from RED to ORANGE when its missed meal was cleared.
C4_Witness ==
    /\ cleared = "meal"
    /\ prev = "RED"
    /\ ret = "ORANGE"

----------------------------------------------------------------------------
(* SpecDefaults: PUT /api/meal-config/:slot, the handler that is nothing   *)
(* but a setDefaultAmount call, served MaxCalls times from the empty store *)

InitStore ==
    /\ NoClient
    /\ NoImport
    /\ dayData = [vomited |-> 0, peed |-> 0, pooped |-> 0, meals |-> <<>>]
    /\ ret = "none"
    /\ prev = "none"
    /\ cleared = "none"
    /\ db = EmptyDb
    /\ nOps = 0
    /\ lastOp = NoOp
    /\ lastWrite = NoWrites

\* app.put('/api/meal-config/:slot'): the date is effective_date or today.
PutMealConfig(slot, amount, date) ==
    /\ db' = setDefaultAmount(db, slot, amount, date)
    /\ nOps' = nOps + 1
    /\ lastOp' = [op |-> "PUT meal-config", date |-> date, slot |-> slot,
                  amount |-> amount, ok |-> TRUE]
    /\ lastWrite' = [lastWrite EXCEPT ![<<slot, date>>] = {amount}]
    /\ UNCHANGED <<statusVars, clientVars, importVars>>

\* The slots the requests of SpecDefaults name.
RequestSlots == {1, 2}

NextDefaults ==
    /\ nOps < MaxCalls
    /\ \E slot \in RequestSlots, amount \in Amounts, date \in Dates :
           PutMealConfig(slot, amount, date)

SpecDefaults == InitStore /\ [][NextDefaults]_vars

----------------------------------------------------------------------------
(* Claims about the effective-dated defaults *)

History == db.meal_default_history

\* The stored versions of a slot dated on or before q.
StoredUpTo(h, s, q) ==
    {i \in 1..Len(h) : h[i].meal_slot = s /\ h[i].effective_date <= q}

\* C5: the resolver returns the amount of the stored version of the slot
\* with the greatest effectiveDate <= queryDate, and 0 when there is none.
C5_Resolve ==
    \A s \in MealSlots, q \in Dates :
        LET r == getEffectiveDefaultAmount(db, s, q)
            V == StoredUpTo(History, s, q)
        IN  /\ V = {} => r = 0
            /\ V # {} =>
                \E i \in V :
                    /\ \A j \in V : History[j].effective_date <= History[i].effective_date
                    /\ r = History[i].default_amount

\* A slot with two versions of different non-zero amounts: a query on the
\* later version's own date sees the later one, a query on the earlier
\* version's date sees the earlier one, a query before both sees 0.
C5_Witness ==
    \E i, j \in 1..Len(History) :
        /\ History[i].meal_slot = History[j].meal_slot
        /\ History[i].effective_date = 2
        /\ History[j].effective_date = 3
        /\ History[i].default_amount = 20
        /\ History[j].default_amount = 30
        /\ getEffectiveDefaultAmount(db, History[i].meal_slot, 3) = 30
        /\ getEffectiveDefaultAmount(db, History[i].meal_slot, 2) = 20
        /\ getEffectiveDefaultAmount(db, History[i].meal_slot, 1) = 0

VersionsAt(h, s, e) ==
    {i \in 1..Len(h) : h[i].meal_slot = s /\ h[i].effective_date = e}

\* C6: the history holds at most one version per (slot, effectiveDate): none
\* for a pair never written, and for a written pair exactly one, carrying the
\* amount of the most recent call made with that pair.
C6_LastWriteWins ==
    \A s \in MealSlots, e \in Dates :
        LET V == VersionsAt(History, s, e)
        IN  IF lastWrite[<<s, e>>] = {}
            THEN V = {}
            ELSE /\ Cardinality(V) = 1
                 /\ \A i \in V : lastWrite[<<s, e>>] = {History[i].default_amount}

\* The last call repeated a pair that was already stored, with a new amount:
\* the history has fewer rows than calls were made.
C6_Witness ==
    /\ lastOp.op = "PUT meal-config"
    /\ nOps = 3
    /\ Len(History) = 2
    /\ History[1].meal_slot = lastOp.slot
    /\ History[1].effective_date = lastOp.date
    /\ History[1].default_amount = lastOp.amount
    /\ lastOp.amount = 30

\* The next later effectiveDate of slot s after e, or MaxDate + 1 when none.
NextLater(h, s, e) ==
    LET later == {h[i].effective_date : i \in {k \in 1..Len(h) :
                      h[k].meal_slot = s /\ h[k].effective_date > e}}
    IN  IF later = {} THEN MaxDate + 1
        ELSE CHOOSE x \in later : \A y \in later : x <= y

\* The indices of h ordered by effective_date, ties by rowid.
RECURSIVE ByDate(_, _)
ByDate(h, todo) ==
    IF todo = {} THEN <<>>
    ELSE LET i == CHOOSE k \in todo :
                      \A j \in todo :
                          \/ h[k].effective_date < h[j].effective_date
                          \/ h[k].effective_date = h[j].effective_date /\ k <= j
         IN  <<i>> \o ByDate(h, todo \ {i})

\* The database after the same versions are inserted in date order.
RECURSIVE InsertAll(_, _, _)
InsertAll(d, h, order) ==
    IF order = <<>> THEN d
    ELSE InsertAll(setDefaultAmount(d, h[Head(order)].meal_slot,
                                    h[Head(order)].default_amount,
                                    h[Head(order)].effective_date),
                   h, Tail(order))

InDateOrder == InsertAll(EmptyDb, History, ByDate(History, 1..Len(History)))

\* C7: after a version (slot, a, e) is written, the resolver returns a for
\* every query date from e up to the next later version of the slot, also
\* when later versions were stored first; every query answers as it does
\* when the same versions are inserted in date order.
C7_OrderIndependent ==
    /\ lastOp.op = "PUT meal-config" =>
           \A q \in Dates :
               (lastOp.date <= q /\ q < NextLater(History, lastOp.slot, lastOp.date))
                   => getEffectiveDefaultAmount(db, lastOp.slot, q) = lastOp.amount
    /\ \A s \in MealSlots, q \in Dates :
           getEffectiveDefaultAmount(db, s, q) = getEffectiveDefaultAmount(InDateOrder, s, q)

\* The version written last is dated before a version that was stored
\* earlier, and the queries between the two now see the new amount.
C7_Witness ==
    /\ lastOp.op = "PUT meal-config"
    /\ Len(History) = 2
    /\ History[2].meal_slot = lastOp.slot /\ History[2].effective_date = lastOp.date
    /\ History[1].meal_slot = lastOp.slot /\ History[1].effective_date = 3
    /\ lastOp.date = 1
    /\ History[1].default_amount = 30 /\ lastOp.amount = 20
    /\ getEffectiveDefaultAmount(db, lastOp.slot, 1) = 20
    /\ getEffectiveDefaultAmount(db, lastOp.slot, 2) = 20
    /\ getEffectiveDefaultAmount(db, lastOp.slot, 3) = 30

\* C8: a setDefaultAmount(slot, a, e) call leaves the resolver's answer
\* unchanged for every query date before e, for every query date on or after
\* the next later version of the slot, and for every other slot.
C8_Frame ==
    [][ \A s \in MealSlots, a \in Amounts, e \in Dates :
            (lastOp' = [op |-> "PUT meal-config", date |-> e, slot |-> s,
                        amount |-> a, ok |-> TRUE] /\ nOps' = nOps + 1) =>
                \A s2 \in MealSlots, q \in Dates :
                    (s2 # s \/ q < e \/ q >= NextLater(History, s, e)) =>
                        getEffectiveDefaultAmount(db', s2, q) =
                            getEffectiveDefaultAmount(db, s2, q) ]_vars

\* A version written between two stored ones: the query after the later one
\* still sees 30, the query before the earlier one still sees 0, the other
\* slot sees nothing.
C8_Witness ==
    /\ lastOp.op = "PUT meal-config" /\ lastOp.date = 2 /\ lastOp.amount = 20
    /\ Len(History) = 3
    /\ \A i \in 1..3 : History[i].meal_slot = lastOp.slot
    /\ History[1].effective_date = 1 /\ History[1].default_amount = 30
    /\ History[2].effective_date = 3 /\ History[2].default_amount = 30
    /\ getEffectiveDefaultAmount(db, lastOp.slot, 3) = 30
    /\ getEffectiveDefaultAmount(db, lastOp.slot, 2) = 20

----------------------------------------------------------------------------
(* app.ts: the requests that write the store.  better-sqlite3 is           *)
(* synchronous and no handler awaits between two of its statements, so a   *)
(* handler runs to its end, or to the statement that throws, in one step.  *)

\* for (const med of medications) upsertMedicationEntry(...): the loop stops
\* at the first entry whose medication id the FOREIGN KEY rejects.
RECURSIVE putMedications(_, _, _)
putMedications(d, date, medications) ==
    IF medications = <<>> THEN [db |-> d, ok |-> TRUE]
    ELSE LET med == Head(medications)
         IN  IF ~medicationExists(d, med.id)
             THEN [db |-> d, ok |-> FALSE]
             ELSE putMedications(upsertMedicationEntry(d, date, med.id, med.taken),
                                 date, Tail(medications))

\* for (const meal of meals): setDefaultAmount when set_default_amount is
\* given (a set holding the amount; empty when undefined), then upsertMealEntry.
RECURSIVE putMeals(_, _, _)
putMeals(d, date, meals) ==
    IF meals = <<>> THEN d
    ELSE LET meal == Head(meals)
             d1 == IF meal.set_default_amount # {}
                   THEN setDefaultAmount(d, meal.slot,
                            CHOOSE a \in meal.set_default_amount : TRUE, date)
                   ELSE d
         IN  putMeals(upsertMealEntry(d1, date, meal.slot, meal.status),
                      date, Tail(meals))

\* The setDefaultAmount calls of putMeals, as seen by lastWrite.
RECURSIVE writesOfMeals(_, _, _)
writesOfMeals(lw, date, meals) ==
    IF meals = <<>> THEN lw
    ELSE LET meal == Head(meals)
         IN  writesOfMeals(IF meal.set_default_amount # {}
                           THEN [lw EXCEPT ![<<meal.slot, date>>] = meal.set_default_amount]
                           ELSE lw,
                           date, Tail(meals))

\* app.put('/api/day/:date'): body.record holds the fields of the body other
\* than medications and meals.
putDay(d, date, body) ==
    LET d1 == IF DOMAIN body.record # {}
              THEN updateDailyRecord(d, date, body.record)
              ELSE d
        r2 == putMedications(d1, date, body.medications)
        d3 == putMeals(r2.db, date, body.meals)
        r4 == updateDayStatus(d3, date)
        r5 == getFullDayData(r4.db, date)
    IN  IF r2.ok
        THEN [db |-> r5.db, ok |-> TRUE, status |-> r4.status]
        ELSE [db |-> r2.db, ok |-> FALSE, status |-> "none"]

----------------------------------------------------------------------------
(* The requests served in Spec *)

RequestDates == {1, 2}

NoMeds == <<>>
NoMeals == <<>>
NoFields == <<>>

Meal(slot, status, sda) == [slot |-> slot, status |-> status, set_default_amount |-> sda]
Med(id, taken) == [id |-> id, taken |-> taken]
Body(record, medications, meals) ==
    [record |-> record, medications |-> medications, meals |-> meals]

\* A medication id that is in no row of the medications table: the requests
\* of one run add fewer rows than that.
UnknownMedication == NumSeededMedications + MaxOps + 1

PutBodies ==
    {Body("vomited" :> v, NoMeds, NoMeals) : v \in {0, 1, MaxCount}}
    \cup {Body(f :> v, NoMeds, NoMeals) : f \in {"peed", "pooped"}, v \in {0, 1}}
    \cup {Body("teeth_brushed" :> 1, NoMeds, NoMeals), Body(NoFields, NoMeds, NoMeals)}
    \cup {Body(NoFields, NoMeds, <<Meal(1, st, {})>>) : st \in MealStatuses}
    \cup {Body(NoFields, NoMeds, <<Meal(2, "skipped", {})>>)}
    \cup {Body(NoFields, NoMeds, <<Meal(1, "ate_fully", {a})>>) : a \in Amounts}
    \cup {Body(NoFields, NoMeds, <<Meal(1, "not_fully", {}), Meal(2, "ate_fully", {20})>>)}
    \cup {Body(NoFields, <<Med(1, t)>>, NoMeals) : t \in BOOLEAN}
    \cup {Body("vomited" :> 0, <<Med(UnknownMedication, TRUE)>>, NoMeals),
          Body("vomited" :> 1, <<Med(UnknownMedication, TRUE)>>, NoMeals),
          Body(NoFields, <<Med(1, TRUE), Med(UnknownMedication, TRUE)>>,
               <<Meal(1, "skipped", {})>>)}
    \cup {Body([f \in {"peed", "pooped"} |-> 1], NoMeds, <<Meal(1, "ate_fully", {})>>),
          Body([f \in {"vomited", "peed", "pooped"} |-> 1], NoMeds, NoMeals),
          Body("vomited" :> 1, NoMeds, <<Meal(1, "not_fully", {})>>),
          Body(NoFields, <<Med(NumSeededMedications + 1, TRUE)>>, NoMeals)}

\* app.get('/api/day/:date')
GetDay(date) ==
    /\ db' = getFullDayData(db, date).db
    /\ nOps' = nOps + 1
    /\ lastOp' = [op |-> "GET day", date |-> date, slot |-> 0, amount |-> 0, ok |-> TRUE]
    /\ UNCHANGED <<lastWrite, statusVars, clientVars, importVars>>

\* app.put('/api/day/:date')
PutDay(date, body) ==
    LET r == putDay(db, date, body)
    IN  /\ db' = r.db
        /\ nOps' = nOps + 1
        /\ lastOp' = [op |-> "PUT day", date |-> date, slot |-> 0, amount |-> 0,
                      ok |-> r.ok]
        /\ lastWrite' = IF r.ok THEN writesOfMeals(lastWrite, date, body.meals)
                        ELSE lastWrite
        /\ UNCHANGED <<statusVars, clientVars, importVars>>

\* app.post('/api/medications')
PostMedication(name, timeLabel) ==
    /\ db' = addMedication(db, name, timeLabel)
    /\ nOps' = nOps + 1
    /\ lastOp' = [op |-> "POST medications", date |-> 0, slot |-> 0, amount |-> 0,
                  ok |-> TRUE]
    /\ UNCHANGED <<lastWrite, statusVars, clientVars, importVars>>

\* app.put('/api/medications/:id'): the columns the body names are set.
updateMedication(d, id, body) ==
    LET fields == DOMAIN body \cap {"name", "time_label", "sort_order"}
    IN  IF fields = {} THEN d
        ELSE [d EXCEPT !.medications =
                 {IF m.id = id THEN patchRow(m, body, fields) ELSE m : m \in @}]

PutMedication(id, body) ==
    /\ db' = updateMedication(db, id, body)
    /\ nOps' = nOps + 1
    /\ lastOp' = [op |-> "PUT medications", date |-> 0, slot |-> 0, amount |-> 0,
                  ok |-> TRUE]
    /\ UNCHANGED <<lastWrite, statusVars, clientVars, importVars>>

\* app.delete('/api/medications/:id')
DeleteMedication(id) ==
    /\ db' = deactivateMedication(db, id)
    /\ nOps' = nOps + 1
    /\ lastOp' = [op |-> "DELETE medications", date |-> 0, slot |-> 0, amount |-> 0,
                  ok |-> TRUE]
    /\ UNCHANGED <<lastWrite, statusVars, clientVars, importVars>>

\* The medications added, renamed and removed by the requests tried.
NewMedications == {<<"Gabapentin", "morning">>}
MedicationPatches == {[name |-> "Normolact forte", time_label |-> "noon"]}
MedicationIds == {1, UnknownMedication}

\* A period query string is the sequence of its characters; a character that
\* cannot be typed is written by its code point, as in "U+00A0".
All == <<"a", "l", "l">>
Seven == <<"7">>

\* The period query strings tried: absent or empty (<<>>), 'all', the '30'
\* the Trends page sends, one day, a string of which parseInt reads nothing,
\* one of which it reads the hexadecimal digits between white space and
\* another character, and counts that carry the start date out of the years
\* 0000 to 9999, to the end of the range of a Date and out of it.
Periods ==
    {<<>>, All, <<"3", "0">>, <<"1">>, <<"A", "L", "L">>,
     <<"\n", "U+00A0", "0", "x", "1", "0", " ", "d">>,
     <<"-", "3", "0", "0", "0", "0", "0", "0">>,
     <<"7", "4", "0", "0", "0", "0">>,
     <<"2", "0", "0", "0", "0", "0", "0", "0", "0">>,
     <<"-", "9", "9", "9", "7", "9", "9", "1", "0">>}

\* StrWhiteSpaceChar: WhiteSpace (TAB, VT, FF, SP, NBSP, ZWNBSP and the space
\* separators of Unicode) and LineTerminator (LF, CR, LS, PS)
WhiteSpace ==
    {"\t", "U+000B", "\f", " ", "U+00A0", "U+FEFF",
     "U+1680", "U+2000", "U+2001", "U+2002", "U+2003", "U+2004", "U+2005",
     "U+2006", "U+2007", "U+2008", "U+2009", "U+200A", "U+202F", "U+205F",
     "U+3000",
     "\n", "\r", "U+2028", "U+2029"}

\* The value of a character as a digit; 16 for a character that is no digit
\* in radix 10 or 16.
digitOf(char) ==
    LET values ==
          [c \in {"0", "1", "2", "3", "4", "5", "6", "7", "8", "9"} |->
              CASE c = "0" -> 0 [] c = "1" -> 1 [] c = "2" -> 2 [] c = "3" -> 3
                [] c = "4" -> 4 [] c = "5" -> 5 [] c = "6" -> 6 [] c = "7" -> 7
                [] c = "8" -> 8 [] c = "9" -> 9]
          @@ [c \in {"a", "A"} |-> 10] @@ [c \in {"b", "B"} |-> 11]
          @@ [c \in {"c", "C"} |-> 12] @@ [c \in {"d", "D"} |-> 13]
          @@ [c \in {"e", "E"} |-> 14] @@ [c \in {"f", "F"} |-> 15]
    IN  IF char \in DOMAIN values THEN values[char] ELSE 16

RECURSIVE trimStart(_)
trimStart(s) ==
    IF s # <<>> /\ s[1] \in WhiteSpace THEN trimStart(Tail(s)) ELSE s

\* The largest count of days held. A Date holds 100,000,000 days on each side
\* of 1970-01-01, so a count of MaxNumber or more sets the start to an
\* Invalid Date, whatever its value.
MaxNumber == 2000000000

\* The number the longest prefix of digits of s denotes in the radix.
RECURSIVE digitsValue(_, _, _)
digitsValue(s, radix, acc) ==
    IF s # <<>> /\ digitOf(s[1]) < radix
    THEN digitsValue(Tail(s), radix,
                     IF acc > (MaxNumber - digitOf(s[1])) \div radix
                     THEN MaxNumber
                     ELSE acc * radix + digitOf(s[1]))
    ELSE acc

\* parseInt(string) without a radix: white space is skipped, a sign is read,
\* "0x" or "0X" selects radix 16, and the longest prefix of digits is the
\* number; {} is NaN, {n} the number n.
parseInt(string) ==
    LET s == trimStart(string)
        negative == s # <<>> /\ s[1] = "-"
        unsigned == IF s # <<>> /\ s[1] \in {"+", "-"} THEN Tail(s) ELSE s
        hex == Len(unsigned) >= 2 /\ unsigned[1] = "0" /\ unsigned[2] \in {"x", "X"}
        radix == IF hex THEN 16 ELSE 10
        digits == IF hex THEN Tail(Tail(unsigned)) ELSE unsigned
    IN  IF digits = <<>> \/ digitOf(digits[1]) >= radix
        THEN {}
        ELSE {(IF negative THEN -1 ELSE 1) * digitsValue(digits, radix, 0)}

\* const period = request.query.period || '7'
periodOf(query) == IF query = <<>> THEN Seven ELSE query

\* parseInt(period) || 7: NaN and 0 give 7
parseDays(period) ==
    LET days == parseInt(period)
    IN  IF days \in {{}, {0}} THEN 7 ELSE CHOOSE n \in days : TRUE

\* The periods tried are parsed once.
ParsedDays == [period \in Periods \cup {Seven} |-> parseDays(period)]
periodDays(period) ==
    IF period \in DOMAIN ParsedDays THEN ParsedDays[period] ELSE parseDays(period)

\* The clock and the time zone of the server, as far as a request sees them.
\* endDate is the UTC date of one reading of the clock; start is a second
\* reading, set back in local time and printed in UTC. shift is the days the
\* printed date is off endDate - days + 1: one more when the clock passes UTC
\* midnight between the two readings, and one more or less for each of the
\* two local times whose local date is not its UTC date. midnight tells that
\* the start falls on 00:00:00.000 UTC, the one time of the last day of a
\* Date that is in range.
Shifts == -2..2
Clocks == [shift : Shifts, midnight : BOOLEAN]
Noon == [shift |-> 0, midnight |-> FALSE]

\* For one day the local time is set to itself, which in a repeated hour is
\* the earlier of the two: the start is the second reading or the day before.
DayShifts(days) == IF days = 1 THEN {-1, 0, 1} ELSE Shifts

\* setDate gives an Invalid Date when the time value leaves the range of
\* MaxTime days on each side of 1970-01-01, and toISOString then throws a
\* RangeError.
toISOStringThrows(day, midnight) ==
    LET t == day + Day0
    IN  ~(-MaxTime <= t /\ (t < MaxTime \/ (t = MaxTime /\ midnight)))

\* Mutant: 'all' starts at the latest stored date.
periodStart_latest(d, period, endDate, clock) ==
    IF period = All
    THEN IF d.daily_records = {}
         THEN {endDate}
         ELSE {x \in {r.date : r \in d.daily_records} :
                  \A r \in d.daily_records : x >= r.date}
    ELSE LET day == endDate - periodDays(period) + 1 + clock.shift
         IN  IF toISOStringThrows(day, clock.midnight) THEN {} ELSE {toISOString(day)}

\* The start date both trends routes compute for a period, endDate being the
\* UTC date of today: {start}, or {} when toISOString throws, which it can in
\* the branch of a day count only.
periodStart(d, period, endDate, clock) ==
    IF period = All
    THEN IF d.daily_records = {}
         THEN {endDate}
         ELSE {x \in {r.date : r \in d.daily_records} :
                  \A r \in d.daily_records : x <= r.date}
    ELSE LET day == endDate - periodDays(period) + 1 + clock.shift
         IN  IF toISOStringThrows(day, clock.midnight) THEN {} ELSE {toISOString(day)}

\* The clocks a request can meet.
ClocksOf(query, today) ==
    IF periodOf(query) = All
    THEN {Noon}
    ELSE LET days == periodDays(periodOf(query))
         IN  {c \in Clocks :
                 /\ c.shift \in DayShifts(days)
                 /\ c.midnight => today - days + 1 + c.shift + Day0 = MaxTime}

\* A route that throws answers 500 (ok is FALSE) and leaves the store.
\* Mutant: the problem-days route refreshes today's status before listing.
getProblemDaysRoute_refreshing(d, query, today, clock, select) ==
    LET start == periodStart(d, periodOf(query), today, clock)
    IN  IF start = {}
        THEN [db |-> d, ok |-> FALSE, result |-> <<>>]
        ELSE [db |-> updateDayStatus(d, today).db,
              ok |-> TRUE,
              result |-> getProblemDays(updateDayStatus(d, today).db,
                                        CHOOSE s \in start : TRUE, today, select)]

\* app.get('/api/trends')
getTrendsRoute(d, query, today, clock) ==
    LET start == periodStart(d, periodOf(query), today, clock)
    IN  IF start = {}
        THEN [db |-> d, ok |-> FALSE, result |-> <<>>]
        ELSE [db |-> d,
              ok |-> TRUE,
              result |-> getTrendsSummary(d, CHOOSE s \in start : TRUE, today)]

\* app.get('/api/problem-days')
getProblemDaysRoute(d, query, today, clock, select) ==
    LET start == periodStart(d, periodOf(query), today, clock)
    IN  IF start = {}
        THEN [db |-> d, ok |-> FALSE, result |-> <<>>]
        ELSE [db |-> d,
              ok |-> TRUE,
              result |-> getProblemDays(d, CHOOSE s \in start : TRUE, today, select)]

GetTrends(query, today, clock) ==
    LET r == getTrendsRoute(db, query, today, clock)
    IN  /\ db' = r.db
        /\ nOps' = nOps + 1
        /\ lastOp' = [op |-> "GET trends", date |-> today, slot |-> 0, amount |-> 0,
                      ok |-> r.ok]
        /\ UNCHANGED <<lastWrite, statusVars, clientVars, importVars>>

GetProblemDays(query, today, clock) ==
    /\ \E select \in MealSelections(db) :
          LET r == getProblemDaysRoute(db, query, today, clock, select)
          IN  /\ db' = r.db
              /\ lastOp' = [op |-> "GET problem-days", date |-> today, slot |-> 0,
                            amount |-> 0, ok |-> r.ok]
    /\ nOps' = nOps + 1
    /\ UNCHANGED <<lastWrite, statusVars, clientVars, importVars>>

GetTrendsStep ==
    nOps < MaxOps /\ \E query \in Periods, today \in RequestDates :
                         \E clock \in ClocksOf(query, today) :
                             GetTrends(query, today, clock)

GetProblemDaysStep ==
    nOps < MaxOps /\ \E query \in Periods, today \in RequestDates :
                         \E clock \in ClocksOf(query, today) :
                             GetProblemDays(query, today, clock)

GetDayStep == nOps < MaxOps /\ \E date \in RequestDates : GetDay(date)

PutDayStep ==
    nOps < MaxOps /\ \E date \in RequestDates, body \in PutBodies : PutDay(date, body)

PostMedicationStep ==
    nOps < MaxOps /\ \E m \in NewMedications : PostMedication(m[1], m[2])

PutMedicationStep ==
    nOps < MaxOps /\ \E id \in MedicationIds, body \in MedicationPatches :
                         PutMedication(id, body)

DeleteMedicationStep ==
    nOps < MaxOps /\ \E id \in MedicationIds : DeleteMedication(id)

PutMealConfigStep ==
    nOps < MaxOps /\ \E slot \in RequestSlots, amount \in Amounts, date \in RequestDates :
                         PutMealConfig(slot, amount, date)

Next ==
    \/ GetDayStep \/ PutDayStep \/ PutMealConfigStep
    \/ PostMedicationStep \/ PutMedicationStep \/ DeleteMedicationStep
    \/ GetTrendsStep \/ GetProblemDaysStep

Spec == InitStore /\ [][Next]_vars

----------------------------------------------------------------------------
(* import.ts: the import script, a process of its own on the database of   *)
(* the server. Neither the script nor a handler of the server opens a      *)
(* transaction, so each SQL statement is one step of its process and the   *)
(* statements of the two processes interleave. The server serves one       *)
(* request at a time. A SELECT whose rows are used for the answer of a     *)
(* request only is not a step: the answer is not represented.              *)

\* A CSV cell is the sequence of its characters, the Cyrillic letters of the
\* file written in Latin ones.
Doel == <<"d", "o", "e", "l">>
DoelCapital == <<"D", "o", "e", "l">>
NeDoel == <<"n", "e", " ">> \o Doel
NeDavala == <<"n", "e", " ", "d", "a", "v", "a", "l", "a">>
NeDavalaCapital == <<"N", "e", " ", "d", "a", "v", "a", "l", "a">>
BylVKlinike == <<"b", "y", "l", " ", "v", " ", "k", "l", "i", "n", "i", "k", "e">>
BylVKlinikeCapital == <<"B">> \o Tail(BylVKlinike)
Dash == <<"-">>

\* value.toLowerCase(): every capital letter becomes its small letter.
toLowerCase(value) ==
    LET capitals ==
          <<"A", "B", "C", "D", "E", "F", "G", "H", "I", "J", "K", "L", "M",
            "N", "O", "P", "Q", "R", "S", "T", "U", "V", "W", "X", "Y", "Z">>
        smalls ==
          <<"a", "b", "c", "d", "e", "f", "g", "h", "i", "j", "k", "l", "m",
            "n", "o", "p", "q", "r", "s", "t", "u", "v", "w", "x", "y", "z">>
    IN  [i \in 1..Len(value) |->
            IF \E k \in 1..Len(capitals) : capitals[k] = value[i]
            THEN smalls[CHOOSE k \in 1..Len(capitals) : capitals[k] = value[i]]
            ELSE value[i]]

\* value.includes(part)
includes(value, part) ==
    \E i \in 0..(Len(value) - Len(part)) : SubSeq(value, i + 1, i + Len(part)) = part

\* parseMealStatus: the test for 'doel' comes first, so a cell that holds
\* 'ne doel' is read as ate_fully.
parseMealStatus(value) ==
    IF value = <<>> \/ value = Dash THEN "ate_fully"
    ELSE LET lower == toLowerCase(value)
         IN  IF lower = Doel \/ includes(lower, Doel) THEN "ate_fully"
             ELSE IF lower = NeDoel \/ includes(lower, NeDoel) THEN "not_fully"
             ELSE IF includes(lower, NeDavala) \/ includes(lower, BylVKlinike)
                  THEN "skipped"
             ELSE "ate_fully"

\* The date cell of a row is the sequence of the parts that '.' separates
\* (day, month, year, each a number), or the one part '-'. A cell without a
\* '.' is not a date and parseDate throws unless there are three parts. The
\* date it builds, year-month-day with month and day padded to two digits,
\* is the TEXT of a day when the parts are a date of the calendar with a year
\* of four digits, as they are in the rows tried: parseDate is that day.
dateIsValid(cell) == cell # <<>> /\ cell # Dash /\ Len(cell) > 1
parseDateThrows(cell) == Len(cell) # 3
parseDate(cell) == daysFromCivil(cell[3], cell[2], cell[1])

\* The CsvRow that parseRow returns: the counts after parseNumber, the flags
\* after parseBoolean, in the order importCsv writes them.
CsvRow(dateCell, vomited, peed, pooped, taken, meal1) ==
    [date |-> dateCell, teethBrushed |-> TRUE, vomited |-> vomited, peed |-> peed,
     pooped |-> pooped, taken |-> [k \in 1..7 |-> taken],
     meals |-> <<meal1, DoelCapital, Dash, <<>>>>]

\* The files tried, by their data lines: two rows of one date with different
\* values, then a row of the same day of another month; the rows of two
\* months the other way round; a row whose date has two parts and one whose
\* date is '-', before a row that is imported.
CsvFiles ==
    {<<CsvRow(<<1, 1, 2025>>, 0, 1, 1, TRUE, NeDoel),
       CsvRow(<<1, 1, 2025>>, 1, 1, 1, FALSE, NeDavalaCapital),
       CsvRow(<<1, 2, 2025>>, 0, 0, 0, TRUE, BylVKlinikeCapital)>>,
     <<CsvRow(<<1, 2, 2025>>, MaxCount, 1, 1, TRUE, BylVKlinike),
       CsvRow(<<1, 1, 2025>>, 0, 1, 1, FALSE, Doel),
       CsvRow(<<1, 1, 2025>>, 0, 1, 1, TRUE, NeDavala)>>,
     <<CsvRow(<<1, 2025>>, 0, 1, 1, TRUE, Doel),
       CsvRow(Dash, 0, 1, 1, TRUE, Doel),
       CsvRow(<<1, 1, 2025>>, 0, 0, 0, TRUE, <<>>)>>}

MaxRows == 2       \* data rows of the imported file

\* The data lines of the file, the header row left out: the first MaxRows
\* lines of a file tried.
ImportFiles ==
    {SubSeq(f, 1, IF MaxRows < Len(f) THEN MaxRows ELSE Len(f)) : f \in CsvFiles}

\* The medications the script looks for, in the order it writes their
\* entries: the four seeded ones, then the three of the past.
ImportedNames ==
    SeededNames \o <<"Robeksera", "Gabapentin", "Gabapentin">>
ImportedLabels ==
    SeededLabels \o <<"with food or after", "morning", "evening">>
NumImported == Len(ImportedNames)

\* existingMeds.find(...)?.id for the k-th medication, 0 for undefined:
\* Renalvet, FortiFlora and Robeksera are looked up by name alone.
findMedicationId(existingMeds, k) ==
    LET byName == k \in {3, 4, 5}
        hit == {i \in 1..Len(existingMeds) :
                   /\ existingMeds[i].name = ImportedNames[k]
                   /\ byName \/ existingMeds[i].time_label = ImportedLabels[k]}
    IN  IF hit = {} THEN 0
        ELSE existingMeds[CHOOSE i \in hit : \A j \in hit : i <= j].id

\* The next of the three medications of the past, from the k-th on, that
\* has no id yet; NumImported + 1 when there is none.
RECURSIVE nextMissing(_, _)
nextMissing(ids, k) ==
    IF k > NumImported THEN k
    ELSE IF ids[k] = 0 THEN k ELSE nextMissing(ids, k + 1)

\* The next medication, from the k-th on, that has an id.
RECURSIVE nextKnown(_, _)
nextKnown(ids, k) ==
    IF k > NumImported THEN k
    ELSE IF ids[k] # 0 THEN k ELSE nextKnown(ids, k + 1)

\* for (const line of dataLines): the script at the top of the loop for the
\* given line. A row with an invalid date is skipped, a date parseDate
\* throws on is counted as an error, the rows are over after the last line.
RECURSIVE atLine(_, _)
atLine(i, line) ==
    IF line > Len(i.file) THEN [i EXCEPT !.pc = "done", !.line = line]
    ELSE IF ~dateIsValid(i.file[line].date) THEN atLine(i, line + 1)
    ELSE IF parseDateThrows(i.file[line].date)
         THEN atLine([i EXCEPT !.errors = @ + 1], line + 1)
    ELSE [i EXCEPT !.pc = "selectRecord", !.line = line]

importRowOf(i) == i.file[i.line]
importDateOf(i) == parseDate(importRowOf(i).date)

\* The statements of db.ts and status.ts, one by one.

\* INSERT INTO daily_records (date) VALUES (?)
insertDailyRecord(d, date) ==
    [d EXCEPT !.daily_records = @ \cup {NewDailyRecord(date)}]

\* UPDATE daily_records SET ... WHERE date = ?
updateRecordFields(d, date, data) ==
    [d EXCEPT !.daily_records =
        {IF r.date = date THEN patchRow(r, data, DOMAIN data \ {"id", "date"}) ELSE r
            : r \in @}]

\* SELECT vomited, peed, pooped FROM daily_records WHERE date = ?
selectCounts(d, date) ==
    {[vomited |-> r.vomited, peed |-> r.peed, pooped |-> r.pooped] :
        r \in recordsOf(d, date)}

\* UPDATE daily_records SET day_status = ? WHERE date = ?
updateStatusColumn(d, date, status) ==
    [d EXCEPT !.daily_records =
        {IF r.date = date THEN [r EXCEPT !.day_status = status] ELSE r : r \in @}]

\* The script from its start to the first statement that writes: the file
\* is read, getMedications(true) is queried and the seven ids are looked up.
ImportStart ==
    /\ imp.pc = "idle"
    /\ \E file \in ImportFiles :
          LET ids == [k \in 1..NumImported |->
                         findMedicationId(getMedications(db, TRUE), k)]
              k == nextMissing(ids, NumSeededMedications + 1)
              i == [imp EXCEPT !.file = file, !.ids = ids, !.k = k]
          IN  imp' = IF k <= NumImported THEN [i EXCEPT !.pc = "selectMax"]
                     ELSE atLine(i, 1)
    /\ UNCHANGED <<storeVars, srv, statusVars, clientVars>>

\* addMedication: SELECT MAX(sort_order) as max FROM medications
ImportSelectMax ==
    /\ imp.pc = "selectMax"
    /\ imp' = [imp EXCEPT !.pc = "insertMedication", !.maxOrder = maxSortOrder(db)]
    /\ UNCHANGED <<storeVars, srv, statusVars, clientVars>>

\* addMedication: INSERT INTO medications, with the sort order read before;
\* med.id is the id of the new row.
ImportInsertMedication ==
    /\ imp.pc = "insertMedication"
    /\ db' = insertMedication(db, ImportedNames[imp.k], ImportedLabels[imp.k],
                              imp.maxOrder + 1)
    /\ imp' = [imp EXCEPT !.pc = "deactivate",
                          !.ids[imp.k] = Cardinality(db.medications) + 1]
    /\ UNCHANGED <<nOps, lastOp, lastWrite, srv, statusVars, clientVars>>

\* UPDATE medications SET is_active = 0 WHERE id = ?
ImportDeactivate ==
    /\ imp.pc = "deactivate"
    /\ db' = deactivateMedication(db, imp.ids[imp.k])
    /\ LET k == nextMissing(imp.ids, imp.k + 1)
       IN  imp' = IF k <= NumImported THEN [imp EXCEPT !.pc = "selectMax", !.k = k]
                  ELSE atLine(imp, 1)
    /\ UNCHANGED <<nOps, lastOp, lastWrite, srv, statusVars, clientVars>>

\* getOrCreateDailyRecord: SELECT * FROM daily_records WHERE date = ?
ImportSelectRecord ==
    /\ imp.pc = "selectRecord"
    /\ imp' = [imp EXCEPT !.pc = IF recordsOf(db, importDateOf(imp)) = {}
                                 THEN "insertRecord" ELSE "updateRecord"]
    /\ UNCHANGED <<storeVars, srv, statusVars, clientVars>>

\* getOrCreateDailyRecord: INSERT INTO daily_records (date) VALUES (?). The
\* date is UNIQUE: when the server created the record since the SELECT, the
\* statement throws, the row is counted as an error and the loop goes on.
ImportInsertRecord ==
    /\ imp.pc = "insertRecord"
    /\ IF recordsOf(db, importDateOf(imp)) # {}
       THEN /\ imp' = atLine([imp EXCEPT !.errors = @ + 1], imp.line + 1)
            /\ db' = db
       ELSE /\ db' = insertDailyRecord(db, importDateOf(imp))
            /\ imp' = [imp EXCEPT !.pc = "updateRecord"]
    /\ UNCHANGED <<nOps, lastOp, lastWrite, srv, statusVars, clientVars>>

\* updateDailyRecord: UPDATE daily_records SET ... WHERE date = ?
ImportUpdateRecord ==
    /\ imp.pc = "updateRecord"
    /\ LET row == importRowOf(imp)
       IN  db' = updateRecordFields(db, importDateOf(imp),
                     [teeth_brushed |-> IF row.teethBrushed THEN 1 ELSE 0,
                      vomited |-> row.vomited, peed |-> row.peed, pooped |-> row.pooped])
    /\ imp' = [imp EXCEPT !.pc = "medication", !.k = nextKnown(imp.ids, 1)]
    /\ UNCHANGED <<nOps, lastOp, lastWrite, srv, statusVars, clientVars>>

\* if (id) upsertMedicationEntry(date, id, row.<medication>), one of the seven
ImportMedication ==
    /\ imp.pc = "medication"
    /\ IF imp.k > NumImported
       THEN /\ db' = db
            /\ imp' = [imp EXCEPT !.pc = "meal", !.k = 1]
       ELSE /\ db' = upsertMedicationEntry(db, importDateOf(imp), imp.ids[imp.k],
                                           importRowOf(imp).taken[imp.k])
            /\ LET k == nextKnown(imp.ids, imp.k + 1)
               IN  imp' = IF k <= NumImported THEN [imp EXCEPT !.k = k]
                          ELSE [imp EXCEPT !.pc = "meal", !.k = 1]
    /\ UNCHANGED <<nOps, lastOp, lastWrite, srv, statusVars, clientVars>>

\* upsertMealEntry(date, k, parseMealStatus(row.meal<k>), ...), one of the four
ImportMeal ==
    /\ imp.pc = "meal"
    /\ db' = upsertMealEntry(db, importDateOf(imp), imp.k,
                             parseMealStatus(importRowOf(imp).meals[imp.k]))
    /\ imp' = IF imp.k < NumSlots THEN [imp EXCEPT !.k = @ + 1]
              ELSE [imp EXCEPT !.pc = "statusRecord"]
    /\ UNCHANGED <<nOps, lastOp, lastWrite, srv, statusVars, clientVars>>

\* updateDayStatus: SELECT vomited, peed, pooped FROM daily_records WHERE date = ?
ImportStatusRecord ==
    /\ imp.pc = "statusRecord"
    /\ LET rows == selectCounts(db, importDateOf(imp))
       IN  imp' = IF rows = {}
                  THEN atLine([imp EXCEPT !.imported = @ + 1], imp.line + 1)
                  ELSE [imp EXCEPT !.pc = "statusMeals",
                                   !.record = CHOOSE r \in rows : TRUE]
    /\ UNCHANGED <<storeVars, srv, statusVars, clientVars>>

\* updateDayStatus: SELECT status FROM meal_entries WHERE date = ?, then
\* calculateDayStatus on the record read before and these meals.
ImportStatusMeals ==
    /\ imp.pc = "statusMeals"
    /\ \E meals \in mealStatusRows(db, importDateOf(imp)) :
          imp' = [imp EXCEPT !.pc = "statusUpdate",
                             !.status = calculateDayStatus(
                                 [vomited |-> imp.record.vomited, peed |-> imp.record.peed,
                                  pooped |-> imp.record.pooped, meals |-> meals])]
    /\ UNCHANGED <<storeVars, srv, statusVars, clientVars>>

\* updateDayStatus: UPDATE daily_records SET day_status = ? WHERE date = ?
ImportStatusUpdate ==
    /\ imp.pc = "statusUpdate"
    /\ db' = updateStatusColumn(db, importDateOf(imp), imp.status)
    /\ imp' = atLine([imp EXCEPT !.imported = @ + 1], imp.line + 1)
    /\ UNCHANGED <<nOps, lastOp, lastWrite, srv, statusVars, clientVars>>

\* The server while the script runs: the request it is serving, the
\* statement it is at and what the statements before have read.

MaxServed == 1     \* requests the server serves while the import runs

\* The dates of the requests served while the import runs.
ServedDates == {1}

\* The bodies of the PUT /api/day requests served while the import runs:
\* every part of a body, and a medication that the table has only once the
\* script has added it.
ServedBodies ==
    {Body("vomited" :> MaxCount, <<Med(1, FALSE)>>, <<Meal(1, "not_fully", {20})>>),
     Body(NoFields, <<Med(NumSeededMedications + 1, TRUE)>>, <<Meal(1, "skipped", {})>>)}

\* A request as the handler holds it before its first statement.
Request(op, date, body) ==
    [Idle EXCEPT !.pc = "received", !.op = op, !.date = date, !.body = body]

ServedRequests ==
    {Request("GET day", date, Body(NoFields, NoMeds, NoMeals)) : date \in ServedDates}
    \cup {Request("PUT day", date, body) : date \in ServedDates, body \in ServedBodies}
    \cup {Request("POST medications", 0, Body(NoFields, NoMeds, NoMeals))}

\* The request is answered: with an error when a statement threw.
Answered(s, ok) ==
    /\ srv' = Idle
    /\ nOps' = nOps + 1
    /\ lastOp' = [op |-> s.op, date |-> s.date, slot |-> 0, amount |-> 0, ok |-> ok]

\* The handler goes on to its next statement.
Goes(s) == srv' = s /\ UNCHANGED <<nOps, lastOp>>

\* return getFullDayData(date): its first statement.
thenAnswer(s) == [s EXCEPT !.pc = "selectRecord", !.stage = "answer"]

\* for (const meal of meals), from the k-th meal on, then updateDayStatus(date)
thenMeals(s, k) ==
    IF k <= Len(s.body.meals)
    THEN [s EXCEPT !.k = k,
                   !.pc = IF s.body.meals[k].set_default_amount # {}
                          THEN "default" ELSE "meal"]
    ELSE [s EXCEPT !.pc = "statusRecord"]

\* for (const med of medications), from the k-th medication on
thenMedications(s, k) ==
    IF k <= Len(s.body.medications) THEN [s EXCEPT !.pc = "medication", !.k = k]
    ELSE thenMeals(s, 1)

\* updateDailyRecord after getOrCreateDailyRecord: return when the data
\* names no column, else the UPDATE.
thenUpdate(s) ==
    IF DOMAIN s.body.record \ {"id", "date"} = {} THEN thenMedications(s, 1)
    ELSE [s EXCEPT !.pc = "updateRecord"]

\* A request arrives: the handler up to its first statement.
ServerReceive ==
    /\ srv.pc = "idle"
    /\ nOps < MaxServed
    /\ \E request \in ServedRequests :
          srv' = IF request.op = "POST medications"
                 THEN [request EXCEPT !.pc = "selectMax"]
                 ELSE IF request.op = "GET day" THEN thenAnswer(request)
                 ELSE IF DOMAIN request.body.record # {}
                      THEN [request EXCEPT !.pc = "selectRecord", !.stage = "update"]
                 ELSE thenMedications(request, 1)
    /\ UNCHANGED <<storeVars, imp, statusVars, clientVars>>

\* getOrCreateDailyRecord: SELECT * FROM daily_records WHERE date = ?. In
\* getFullDayData the SELECTs that follow it read what is answered.
ServerSelectRecord ==
    /\ srv.pc = "selectRecord"
    /\ IF recordsOf(db, srv.date) = {} THEN Goes([srv EXCEPT !.pc = "insertRecord"])
       ELSE IF srv.stage = "answer" THEN Answered(srv, TRUE)
       ELSE Goes(thenUpdate(srv))
    /\ UNCHANGED <<db, lastWrite, imp, statusVars, clientVars>>

\* getOrCreateDailyRecord: INSERT INTO daily_records (date) VALUES (?), then
\* the SELECT of the new row. The date is UNIQUE: when the script created
\* the record since the SELECT, the INSERT throws and the request fails.
ServerInsertRecord ==
    /\ srv.pc = "insertRecord"
    /\ IF recordsOf(db, srv.date) # {}
       THEN db' = db /\ Answered(srv, FALSE)
       ELSE /\ db' = insertDailyRecord(db, srv.date)
            /\ IF srv.stage = "answer" THEN Answered(srv, TRUE)
               ELSE Goes(thenUpdate(srv))
    /\ UNCHANGED <<lastWrite, imp, statusVars, clientVars>>

\* updateDailyRecord: UPDATE daily_records SET ... WHERE date = ?
ServerUpdateRecord ==
    /\ srv.pc = "updateRecord"
    /\ db' = updateRecordFields(db, srv.date, srv.body.record)
    /\ Goes(thenMedications(srv, 1))
    /\ UNCHANGED <<lastWrite, imp, statusVars, clientVars>>

\* upsertMedicationEntry(date, med.id, med.taken, med.comment): the FOREIGN
\* KEY of medication_id throws for an id the table does not hold.
ServerMedication ==
    /\ srv.pc = "medication"
    /\ LET med == srv.body.medications[srv.k]
       IN  IF medicationExists(db, med.id)
           THEN /\ db' = upsertMedicationEntry(db, srv.date, med.id, med.taken)
                /\ Goes(thenMedications(srv, srv.k + 1))
           ELSE db' = db /\ Answered(srv, FALSE)
    /\ UNCHANGED <<lastWrite, imp, statusVars, clientVars>>

\* setDefaultAmount(meal.slot, meal.set_default_amount, date)
ServerDefault ==
    /\ srv.pc = "default"
    /\ LET meal == srv.body.meals[srv.k]
       IN  /\ db' = setDefaultAmount(db, meal.slot,
                        CHOOSE a \in meal.set_default_amount : TRUE, srv.date)
           /\ lastWrite' = [lastWrite EXCEPT ![<<meal.slot, srv.date>>] =
                               meal.set_default_amount]
    /\ Goes([srv EXCEPT !.pc = "meal"])
    /\ UNCHANGED <<imp, statusVars, clientVars>>

\* upsertMealEntry(date, meal.slot, meal.status, ...)
ServerMeal ==
    /\ srv.pc = "meal"
    /\ LET meal == srv.body.meals[srv.k]
       IN  db' = upsertMealEntry(db, srv.date, meal.slot, meal.status)
    /\ Goes(thenMeals(srv, srv.k + 1))
    /\ UNCHANGED <<lastWrite, imp, statusVars, clientVars>>

\* updateDayStatus: SELECT vomited, peed, pooped FROM daily_records WHERE
\* date = ?; it returns 'GREEN' when there is no record.
ServerStatusRecord ==
    /\ srv.pc = "statusRecord"
    /\ LET rows == selectCounts(db, srv.date)
       IN  Goes(IF rows = {} THEN thenAnswer(srv)
                ELSE [srv EXCEPT !.pc = "statusMeals",
                                 !.record = CHOOSE r \in rows : TRUE])
    /\ UNCHANGED <<db, lastWrite, imp, statusVars, clientVars>>

\* updateDayStatus: SELECT status FROM meal_entries WHERE date = ?, then
\* calculateDayStatus on the record read before and these meals.
ServerStatusMeals ==
    /\ srv.pc = "statusMeals"
    /\ \E meals \in mealStatusRows(db, srv.date) :
          Goes([srv EXCEPT !.pc = "statusUpdate",
                           !.status = calculateDayStatus(
                               [vomited |-> srv.record.vomited, peed |-> srv.record.peed,
                                pooped |-> srv.record.pooped, meals |-> meals])])
    /\ UNCHANGED <<db, lastWrite, imp, statusVars, clientVars>>

\* updateDayStatus: UPDATE daily_records SET day_status = ? WHERE date = ?
ServerStatusUpdate ==
    /\ srv.pc = "statusUpdate"
    /\ db' = updateStatusColumn(db, srv.date, srv.status)
    /\ Goes(thenAnswer(srv))
    /\ UNCHANGED <<lastWrite, imp, statusVars, clientVars>>

\* addMedication: SELECT MAX(sort_order) as max FROM medications
ServerSelectMax ==
    /\ srv.pc = "selectMax"
    /\ Goes([srv EXCEPT !.pc = "insertMedication", !.maxOrder = maxSortOrder(db)])
    /\ UNCHANGED <<db, lastWrite, imp, statusVars, clientVars>>

\* addMedication: INSERT INTO medications, with the sort order read before,
\* then the SELECT of the new row, which is the answer.
ServerInsertMedication ==
    /\ srv.pc = "insertMedication"
    /\ \E m \in NewMedications :
          db' = insertMedication(db, m[1], m[2], srv.maxOrder + 1)
    /\ Answered(srv, TRUE)
    /\ UNCHANGED <<lastWrite, imp, statusVars, clientVars>>

NextImport ==
    \/ ImportStart
    \/ ImportSelectMax \/ ImportInsertMedication \/ ImportDeactivate
    \/ ImportSelectRecord \/ ImportInsertRecord \/ ImportUpdateRecord
    \/ ImportMedication \/ ImportMeal
    \/ ImportStatusRecord \/ ImportStatusMeals \/ ImportStatusUpdate
    \/ ServerReceive
    \/ ServerSelectRecord \/ ServerInsertRecord \/ ServerUpdateRecord
    \/ ServerMedication \/ ServerDefault \/ ServerMeal
    \/ ServerStatusRecord \/ ServerStatusMeals \/ ServerStatusUpdate
    \/ ServerSelectMax \/ ServerInsertMedication

SpecImport == InitStore /\ [][NextImport]_vars

----------------------------------------------------------------------------
(* Claims about the trends summary *)

\* C9: in every reachable store state and for every date range, the three
\* status counts of the summary add up to totalDays.
C9_StatusCountsTotal ==
    \A s \in Dates, e \in Dates :
        LET t == getTrendsSummary(db, s, e)
        IN  t.statusCounts.RED + t.statusCounts.ORANGE + t.statusCounts.GREEN
                = t.totalDays

\* Two stored days in different buckets: the first date RED, the second ORANGE.
C9_Witness ==
    LET t == getTrendsSummary(db, 1, 2)
    IN  /\ t.totalDays = 2
        /\ t.statusCounts = [RED |-> 1, ORANGE |-> 1, GREEN |-> 0]
        /\ \E r \in db.daily_records : r.date = 1 /\ r.day_status = "RED"

\* The stored days in range whose classification, recomputed from the current
\* raw counts and meal entries, is st.
RecomputedDays(s, e, st) ==
    {r \in between(db.daily_records, s, e) : classifyRecord(db, r) = st}

\* C10: in every state reachable through the API, each status count of the
\* summary equals the number of stored days in range whose recomputed
\* classification is that status.
C10_CountsAreRecomputed ==
    \A s \in Dates, e \in Dates :
        LET t == getTrendsSummary(db, s, e)
        IN  /\ t.statusCounts.RED = Cardinality(RecomputedDays(s, e, "RED"))
            /\ t.statusCounts.ORANGE = Cardinality(RecomputedDays(s, e, "ORANGE"))
            /\ t.statusCounts.GREEN = Cardinality(RecomputedDays(s, e, "GREEN"))

----------------------------------------------------------------------------
(* Claims about the problem days and the stored day status *)

Entries(seq) == {seq[i] : i \in 1..Len(seq)}

\* C11: getProblemDays(start, end) returns exactly the stored dates in range
\* whose classification, recomputed from the current raw counts and meal
\* entries, is ORANGE or RED, each with that recomputed status.
C11_ProblemDaysAreRecomputed ==
    \A s \in Dates, e \in Dates, select \in MealSelections(db) :
        {<<p.date, p.status>> : p \in Entries(getProblemDays(db, s, e, select))}
            = {<<r.date, classifyRecord(db, r)>> :
                  r \in {x \in db.daily_records :
                            /\ s <= x.date /\ x.date <= e
                            /\ classifyRecord(db, x) # "GREEN"}}

\* C12: every entry returned by getProblemDays has a non-empty issues list.
C12_ProblemDaysHaveIssues ==
    \A s \in Dates, e \in Dates, select \in MealSelections(db) :
        \A p \in Entries(getProblemDays(db, s, e, select)) : Len(p.issues) > 0

\* C13: a date with no logged activity reads as RED: updateDayStatus on a date
\* with no record yields RED, and the record auto-created by GET /api/day/:date
\* reports day_status RED.
C13_NoActivityIsRed ==
    /\ \A date \in Dates :
          recordsOf(db, date) = {} => updateDayStatus(db, date).status = "RED"
    /\ lastOp.op = "GET day" =>
          \A r \in recordsOf(db, lastOp.date) :
              (/\ r.vomited = 0 /\ r.peed = 0 /\ r.pooped = 0
               /\ mealEntriesOn(db, lastOp.date) = {}) => r.day_status = "RED"

countsOf(d, date) ==
    {<<r.vomited, r.peed, r.pooped>> : r \in recordsOf(d, date)}

\* C14: after every completed PUT /api/day/:date that changed the date's counts
\* or its meal entries (a PUT carrying only meals for a date without a record
\* included), the stored day_status of the date equals calculateDayStatus of
\* its current counts and meal statuses.
C14_StoredStatusIsCurrent ==
    [][(/\ lastOp'.op = "PUT day" /\ lastOp'.ok
        /\ \/ mealEntriesOn(db', lastOp'.date) # mealEntriesOn(db, lastOp'.date)
           \/ countsOf(db', lastOp'.date) # countsOf(db, lastOp'.date))
       => \A r \in recordsOf(db', lastOp'.date) :
              r.day_status = classifyRecord(db', r)]_vars

\* C15: updateDayStatus(date) called twice in a row with no write in between
\* returns the same status both times and leaves the store as after one call.
C15_UpdateIdempotent ==
    \A date \in Dates :
        LET first == updateDayStatus(db, date)
            second == updateDayStatus(first.db, date)
        IN  second.status = first.status /\ second.db = first.db

\* A stored status is stale, so the first call writes; the second does not.
C15_Witness ==
    \E date \in Dates :
        LET first == updateDayStatus(db, date)
        IN  /\ first.db # db
            /\ updateDayStatus(first.db, date) = first

----------------------------------------------------------------------------
(* Claims about the trends summary of a range *)

InRange(rows, s, e) == {r \in rows : s <= r.date /\ r.date <= e}

\* C16: for a range with no stored observation, getTrendsSummary returns
\* totalDays 0, every status count 0, both vomit counts 0, peeDays and poopDays
\* 0, empty noPeeDates and noPoopDates, meals total and missed 0 and empty
\* chart series, and getProblemDays returns the empty list.
C16_EmptyRange ==
    [](\A s \in Dates, e \in Dates :
           (InRange(db.daily_records, s, e) = {} /\ InRange(db.meal_entries, s, e) = {})
           => LET t == getTrendsSummary(db, s, e)
              IN  /\ t.totalDays = 0
                  /\ t.statusCounts = [RED |-> 0, ORANGE |-> 0, GREEN |-> 0]
                  /\ t.vomiting = [daysWithVomit |-> 0, daysWithoutVomit |-> 0]
                  /\ t.peePoop = [peeDays |-> 0, poopDays |-> 0,
                                  noPeeDates |-> <<>>, noPoopDates |-> <<>>]
                  /\ t.meals = [total |-> 0, missed |-> 0]
                  /\ t.charts = [dailyMeals |-> <<>>, dailyVomit |-> <<>>]
                  /\ \A select \in MealSelections(db) :
                        getProblemDays(db, s, e, select) = <<>>)

\* The store holds a problem day, and a range beside it is empty.
C16_Witness ==
    /\ \E r \in db.daily_records : r.day_status # "GREEN"
    /\ db.meal_entries # {}
    /\ \E s \in Dates, e \in Dates :
          /\ s <= e
          /\ InRange(db.daily_records, s, e) = {}
          /\ getTrendsSummary(db, s, e).totalDays = 0

\* C17: GET /api/trends and GET /api/problem-days leave the daily records, meal
\* entries, medication entries and default history as they were.
C17_ReadOnly ==
    [][lastOp'.op \in {"GET trends", "GET problem-days"} => db' = db]_vars

\* A read of the problem days went over a store whose cached status is stale.
C17_Witness ==
    /\ lastOp.op = "GET problem-days"
    /\ updateDayStatus(db, lastOp.date).db # db

\* C18: totalDays is the number of distinct stored dates d with
\* startDate <= d <= endDate, both ends included.
C18_TotalDays ==
    [](\A s \in Dates, e \in Dates :
           getTrendsSummary(db, s, e).totalDays
               = Cardinality({x \in Dates : /\ s <= x /\ x <= e
                                            /\ \E r \in db.daily_records : r.date = x}))

\* Two stored dates, each an end of the range it is counted in.
C18_Witness ==
    \E s \in Dates, e \in Dates :
        /\ s < e
        /\ recordsOf(db, s) # {} /\ recordsOf(db, e) # {}
        /\ getTrendsSummary(db, s, e).totalDays = 2
        /\ getTrendsSummary(db, s, s).totalDays = 1

StrictlyDescending(seq) == \A i \in 1..(Len(seq) - 1) : seq[i] > seq[i + 1]

StrictlyAscending(seq) == \A i \in 1..(Len(seq) - 1) : seq[i] < seq[i + 1]

\* C19: daysWithVomit + daysWithoutVomit, peeDays + |noPeeDates| and
\* poopDays + |noPoopDates| each equal totalDays; noPeeDates and noPoopDates
\* list exactly the dates of the range with peed = 0 and pooped = 0, in
\* strictly descending order.
C19_Partitions ==
    [](\A s \in Dates, e \in Dates :
           LET t == getTrendsSummary(db, s, e)
               days == InRange(db.daily_records, s, e)
           IN  /\ t.vomiting.daysWithVomit + t.vomiting.daysWithoutVomit = t.totalDays
               /\ t.peePoop.peeDays + Len(t.peePoop.noPeeDates) = t.totalDays
               /\ t.peePoop.poopDays + Len(t.peePoop.noPoopDates) = t.totalDays
               /\ Entries(t.peePoop.noPeeDates) = {r.date : r \in {x \in days : x.peed = 0}}
               /\ Entries(t.peePoop.noPoopDates) = {r.date : r \in {x \in days : x.pooped = 0}}
               /\ StrictlyDescending(t.peePoop.noPeeDates)
               /\ StrictlyDescending(t.peePoop.noPoopDates))

\* Two dates without pee are listed, and a third stored date is not.
C19_Witness ==
    \E s \in Dates, e \in Dates :
        LET t == getTrendsSummary(db, s, e)
        IN  /\ Len(t.peePoop.noPeeDates) = 2
            /\ t.peePoop.poopDays >= 1
            /\ t.vomiting.daysWithVomit >= 1

\* C20: each chart series is ascending by date with at most one point per
\* date; dailyVomit has one point per stored daily record of the range, with
\* its vomited count; dailyMeals has one point per date of the range with a
\* meal entry, carrying the number of that date's entries whose status is not
\* ate_fully; a date with no stored record has no point.
C20_Charts ==
    [](\A s \in Dates, e \in Dates :
           LET c == getTrendsSummary(db, s, e).charts
               days == InRange(db.daily_records, s, e)
               meals == InRange(db.meal_entries, s, e)
           IN  /\ StrictlyAscending([i \in 1..Len(c.dailyVomit) |-> c.dailyVomit[i].date])
               /\ StrictlyAscending([i \in 1..Len(c.dailyMeals) |-> c.dailyMeals[i].date])
               /\ Entries(c.dailyVomit) = {[date |-> r.date, vomited |-> r.vomited] : r \in days}
               /\ Entries(c.dailyMeals) =
                     {[date |-> x,
                       missed |-> Cardinality({m \in meals : m.date = x /\ m.status # "ate_fully"})]
                         : x \in {m.date : m \in meals}}
               /\ \A p \in Entries(c.dailyVomit) \cup Entries(c.dailyMeals) :
                     recordsOf(db, p.date) # {})

\* Both series have two points, one of them counting a missed meal.
C20_Witness ==
    \E s \in Dates, e \in Dates :
        LET c == getTrendsSummary(db, s, e).charts
        IN  /\ Len(c.dailyVomit) = 2
            /\ Len(c.dailyMeals) = 2
            /\ \E i \in 1..2 : c.dailyMeals[i].missed > 0

----------------------------------------------------------------------------
(* Claims about the store's keys, the merge of a patch and the period 'all' *)

\* C21: getProblemDays returns its entries in strictly descending date order,
\* newest first, with no date repeated.
C21_NewestFirst ==
    \A s \in Dates, e \in Dates, select \in MealSelections(db) :
        LET p == getProblemDays(db, s, e, select)
        IN  StrictlyDescending([i \in 1..Len(p) |-> p[i].date])

\* Two problem days are listed.
C21_Witness ==
    \E s \in Dates, e \in Dates, select \in MealSelections(db) :
        LET p == getProblemDays(db, s, e, select)
        IN  Len(p) = 2 /\ p[1].date > p[2].date

BoolCounts == {0, 1}

\* The patches tried: one field, no field, two fields, and one that also
\* names the date.
Patches ==
    {f :> v : f \in RecordFields, v \in BoolCounts}
    \cup {NoFields, [f \in {"peed", "pooped"} |-> 1],
          [f \in {"date", "vomited"} |-> IF f = "date" THEN MaxDate ELSE 1]}

\* C22: updateDailyRecord(date, patch) sets exactly the fields the patch names
\* (id and date apart) to the given values, leaves every other field of that
\* date and every record of every other date unchanged, and an empty patch
\* changes no field.
C22_PatchMerges ==
    \A date \in RequestDates, patch \in Patches :
        LET d2 == updateDailyRecord(db, date, patch)
            named == DOMAIN patch \ {"id", "date"}
            before == IF recordsOf(db, date) = {} THEN NewDailyRecord(date)
                      ELSE CHOOSE r \in recordsOf(db, date) : TRUE
        IN  /\ \E after \in recordsOf(d2, date) :
                  /\ recordsOf(d2, date) = {after}
                  /\ \A f \in DOMAIN after :
                        after[f] = IF f \in named THEN patch[f] ELSE before[f]
            /\ {r \in d2.daily_records : r.date # date}
                  = {r \in db.daily_records : r.date # date}
            /\ d2.meal_entries = db.meal_entries
            /\ d2.medication_entries = db.medication_entries
            /\ d2.meal_default_history = db.meal_default_history

\* A PUT of one count went into a record that held another value.
C22_Witness ==
    /\ lastOp.op = "PUT day" /\ lastOp.ok
    /\ \E r \in recordsOf(db, lastOp.date) :
          r.vomited = MaxCount /\ r.teeth_brushed = 1
    /\ updateDailyRecord(db, lastOp.date, "peed" :> 1) # db

\* After the step the meal entry of (date, slot) is the one row with the
\* status given, and every other row of the table is as it was.
mealEntryReplaced(date, slot, status) ==
    db'.meal_entries =
        {e \in db.meal_entries : ~(e.date = date /\ e.meal_slot = slot)}
        \cup {[date |-> date, meal_slot |-> slot, status |-> status]}

\* The same for the medication entry of (date, medication).
medicationEntryReplaced(date, medicationId, taken) ==
    db'.medication_entries =
        {e \in db.medication_entries :
            ~(e.date = date /\ e.medication_id = medicationId)}
        \cup {[date |-> date, medication_id |-> medicationId,
               taken |-> IF taken THEN 1 ELSE 0]}

\* No two rows of daily_records, medication_entries or meal_entries have
\* the same key.
KeysAreUnique ==
    /\ \A r1, r2 \in db.daily_records : r1.date = r2.date => r1 = r2
    /\ \A e1, e2 \in db.medication_entries :
          (e1.date = e2.date /\ e1.medication_id = e2.medication_id) => e1 = e2
    /\ \A e1, e2 \in db.meal_entries :
          (e1.date = e2.date /\ e1.meal_slot = e2.meal_slot) => e1 = e2

\* Every upsert statement of the script and of the PUT handler, the ones on
\* a key that has an entry included, leaves the values it was given.
UpsertsReplace ==
    /\ (imp.pc = "meal" /\ imp' # imp)
       => mealEntryReplaced(importDateOf(imp), imp.k,
                            parseMealStatus(importRowOf(imp).meals[imp.k]))
    /\ (imp.pc = "medication" /\ imp' # imp /\ imp.k <= NumImported)
       => medicationEntryReplaced(importDateOf(imp), imp.ids[imp.k],
                                  importRowOf(imp).taken[imp.k])
    /\ (srv.pc = "meal" /\ srv' # srv)
       => mealEntryReplaced(srv.date, srv.body.meals[srv.k].slot,
                            srv.body.meals[srv.k].status)
    /\ (srv.pc = "medication" /\ srv' # srv
            /\ medicationExists(db, srv.body.medications[srv.k].id))
       => medicationEntryReplaced(srv.date, srv.body.medications[srv.k].id,
                                  srv.body.medications[srv.k].taken)

\* C23: the store holds at most one daily record per date, at most one
\* medication entry per (date, medication) and at most one meal entry per
\* (date, slot), and a repeated upsert replaces the values of the entry:
\* after every upsert of the import script or of a PUT, whatever statements
\* of the other process came between, the key has the one entry with the
\* values of that upsert.
C23_Keys == []KeysAreUnique /\ [][UpsertsReplace]_vars

\* The script is past the meal entries of the second line of a file whose
\* first two lines have the same date with another status of meal 1 and
\* another flag of the first medication; a PUT on that date, which wrote
\* both keys, was served; each key has the one entry, with the values of the
\* second line.
C23_Witness ==
    /\ imp.line = 2
    /\ imp.pc \in {"statusRecord", "statusMeals", "statusUpdate"}
    /\ lastOp.op = "PUT day" /\ lastOp.ok
    /\ LET first == imp.file[1]
           second == imp.file[2]
           date == importDateOf(imp)
       IN  /\ dateIsValid(first.date) /\ ~parseDateThrows(first.date)
           /\ parseDate(first.date) = date
           /\ lastOp.date = date
           /\ parseMealStatus(first.meals[1]) # parseMealStatus(second.meals[1])
           /\ first.taken[1] # second.taken[1]
           /\ {e \in db.meal_entries : e.date = date /\ e.meal_slot = 1}
                 = {[date |-> date, meal_slot |-> 1,
                     status |-> parseMealStatus(second.meals[1])]}
           /\ {e \in db.medication_entries : e.date = date /\ e.medication_id = 1}
                 = {[date |-> date, medication_id |-> 1,
                     taken |-> IF second.taken[1] THEN 1 ELSE 0]}
           /\ \E h \in Range(db.meal_default_history) : h.effective_date = date

\* C24: with period 'all' both routes start at the earliest date of any
\* stored daily record, at today when the store is empty, and end today,
\* whatever the clock and the zone of the server, and neither route fails.
C24_PeriodAll ==
    [](\A today \in Dates :
           \E start \in Dates :
               /\ IF db.daily_records = {} THEN start = today
                  ELSE /\ recordsOf(db, start) # {}
                       /\ \A x \in Dates : x < start => recordsOf(db, x) = {}
               /\ \A clock \in Clocks : periodStart(db, All, today, clock) = {start}
               /\ LET t == getTrendsSummary(db, start, today)
                  IN  /\ t.period = [start |-> start, end |-> today]
                      /\ \A shift \in Shifts :
                            LET r == getTrendsRoute(db, All, today,
                                                    [shift |-> shift, midnight |-> FALSE])
                            IN  r.ok /\ r.result = t
               /\ \A select \in MealSelections(db) :
                     LET days == getProblemDays(db, start, today, select)
                     IN  \A shift \in Shifts :
                             LET r == getProblemDaysRoute(db, All, today,
                                          [shift |-> shift, midnight |-> FALSE], select)
                             IN  r.ok /\ r.result = days)

\* A read was made on a day later than the only stored date, a problem day.
C24_Witness ==
    /\ lastOp.op \in {"GET trends", "GET problem-days"}
    /\ \E start \in Dates :
          /\ start < lastOp.date
          /\ recordsOf(db, start) # {} /\ recordsOf(db, lastOp.date) = {}
          /\ getTrendsRoute(db, All, lastOp.date, Noon).result.period.start = start
          /\ \E select \in MealSelections(db) :
                Len(getProblemDaysRoute(db, All, lastOp.date, Noon, select).result) = 1

----------------------------------------------------------------------------
(* Claims about the issues of a day, the day view, a failed PUT and two PUTs *)

MealLines(d, date) ==
    {<<"Meal", e.meal_slot, mealLabels[e.meal_slot]>> :
        e \in {x \in d.meal_entries : x.date = date /\ x.status # "ate_fully"}}

\* C27: for any stored day, getDayIssues has a vomit line iff vomited > 0,
\* 'No pee' iff peed = 0, 'No poop' iff pooped = 0 and exactly one meal line
\* per meal entry whose status is not ate_fully; so the list is empty iff
\* calculateDayStatus on the same counts and meal entries returns GREEN.
C27_IssuesMatchRules ==
    \A r \in db.daily_records :
      \A meals \in rowsInEveryOrder(mealEntriesOn(db, r.date)) :
        LET issues == getDayIssues(db, r.date, meals)
            at(k) == {i \in 1..Len(issues) : issues[i][1] = k}
        IN  /\ IF r.vomited > 0
               THEN \E i \in at("Vomit") : at("Vomit") = {i} /\ issues[i] = <<"Vomit", r.vomited>>
               ELSE at("Vomit") = {}
            /\ Cardinality(at("No pee")) = IF r.peed = 0 THEN 1 ELSE 0
            /\ Cardinality(at("No poop")) = IF r.pooped = 0 THEN 1 ELSE 0
            /\ {issues[i] : i \in at("Meal")} = MealLines(db, r.date)
            /\ Cardinality(at("Meal")) = Cardinality(MealLines(db, r.date))
            /\ Len(issues) = Cardinality(at("Vomit") \cup at("No pee")
                                         \cup at("No poop") \cup at("Meal"))
            /\ (issues = <<>>) <=> (classifyRecord(db, r) = "GREEN")

\* One stored day has a vomit line and a meal line, another day has no issue.
C27_Witness ==
    \E r1, r2 \in db.daily_records, select \in MealSelections(db) :
        /\ <<"Vomit", 1>> \in Entries(getDayIssues(db, r1.date, select[r1.date]))
        /\ <<"Meal", 1, "morning">> \in Entries(getDayIssues(db, r1.date, select[r1.date]))
        /\ getDayIssues(db, r2.date, select[r2.date]) = <<>>

ViewOf(d, date) ==
    LET v == getFullDayData(d, date)
    IN  [record |-> v.record, medications |-> v.medications, meals |-> v.meals]

\* The amount a body sets as the default of a slot: that of its last meal of
\* the slot carrying set_default_amount.
SetsDefault(body, s, a) ==
    \E i \in 1..Len(body.meals) :
        /\ body.meals[i].slot = s
        /\ body.meals[i].set_default_amount = {a}
        /\ \A j \in (i + 1)..Len(body.meals) :
              body.meals[j].slot = s => body.meals[j].set_default_amount = {}

\* C28: in the view getFullDayData returns, the default_amount of each meal
\* slot is getEffectiveDefaultAmount(slot, date) in the current history; right
\* after a PUT /api/day/:date whose meal sets the default a for slot s, the
\* view of that date shows a for s, the view of every earlier date is
\* unchanged, and a later date shows a unless a version of s lies between.
C28_ViewShowsEffectiveDefault ==
    [][/\ (lastOp'.op \in {"GET day", "PUT day"} /\ lastOp'.ok) =>
             LET meals == getFullDayData(db', lastOp'.date).meals
             IN  \A s \in MealSlots :
                     meals[s].default_amount
                         = getEffectiveDefaultAmount(db', s, lastOp'.date)
       /\ (lastOp'.op = "PUT day" /\ lastOp'.ok) =>
             \A body \in {b \in PutBodies : \E i \in 1..Len(b.meals) :
                                               b.meals[i].set_default_amount # {}} :
                 db' = putDay(db, lastOp'.date, body).db =>
                     \A s \in RequestSlots, a \in Amounts :
                         SetsDefault(body, s, a) =>
                             /\ ViewOf(db', lastOp'.date).meals[s].default_amount = a
                             /\ \A early \in Dates :
                                   early < lastOp'.date
                                       => ViewOf(db', early) = ViewOf(db, early)
                             /\ \A late \in Dates :
                                   (/\ late > lastOp'.date
                                    /\ \A i \in 1..Len(db'.meal_default_history) :
                                          LET h == db'.meal_default_history[i]
                                          IN  ~(/\ h.meal_slot = s
                                                /\ h.effective_date > lastOp'.date
                                                /\ h.effective_date <= late))
                                   => ViewOf(db', late).meals[s].default_amount = a]_vars

\* A PUT on the second date set a default that differs from the one in force
\* on the first date; later dates follow the new one.
C28_Witness ==
    /\ lastOp.op = "PUT day" /\ lastOp.ok /\ lastOp.date = 2
    /\ ViewOf(db, 1).meals[1].default_amount = 20
    /\ ViewOf(db, 2).meals[1].default_amount = 30
    /\ ViewOf(db, MaxDate).meals[1].default_amount = 30

\* C29: a PUT /api/day/:date that fails part-way persists none of its
\* changes: the store is as it was before the request.
C29_FailedPutChangesNothing ==
    [][(lastOp'.op = "PUT day" /\ ~lastOp'.ok) => db' = db]_vars

\* The observation fields a PUT body names.
fieldsOf(body) == DOMAIN body.record \ {"id", "date"}

\* C25: two PUT /api/day/:date requests for the same date that update
\* disjoint observation fields never lose an update: a handler runs to its
\* end before the next request is served, so the interleavings of the two
\* are the two orders, and in either order the record ends with both
\* requests' values and the stored day_status is the classification of that
\* record.
C25_NoLostUpdate ==
    \A date \in RequestDates, first \in PutBodies, second \in PutBodies :
        (/\ fieldsOf(first) # {} /\ fieldsOf(second) # {}
         /\ fieldsOf(first) \cap fieldsOf(second) = {})
        => LET after == putDay(putDay(db, date, first).db, date, second).db
           IN  \E r \in recordsOf(after, date) :
                   /\ \A f \in fieldsOf(first) : r[f] = first.record[f]
                   /\ \A f \in fieldsOf(second) : r[f] = second.record[f]
                   /\ r.day_status = classifyRecord(after, r)

----------------------------------------------------------------------------
(* The Today screen (routes/today/+page.svelte) in front of the server:    *)
(* the page, the requests on their way and the handlers of the server,     *)
(* which have no await and so run one after the other.                     *)

MaxEdits == 2      \* autoSave calls in one run of SpecClient
MaxNavs == 1       \* date changes in one run of SpecClient
MaxMeds == 1       \* medications added or removed in one run of SpecClient
MaxFails == 1      \* requests that fail in one run of SpecClient
MaxClicks == 3     \* clicks, changes and failed requests in one run of SpecClient

\* The inputs tried: the count rows, the comment field, the texts typed (the
\* empty one included), the medication row, the meal row and the amount
\* typed as its default.
EditedCounts == {"vomited"}
EditedComments == {"vomited_comment"}
Texts == {<<>>, <<"o", "k">>}
EditedStatuses == {"skipped"}
EditedMedications == {1}
EditedSlots == {1}
EditedAmounts == {30}

\* getTodayString(), as a day number
getTodayString == 2

\* The DayData of an answer of GET or PUT /api/day/:date.
dayDataOf(full) ==
    [record |-> full.record, medications |-> full.medications, meals |-> full.meals]

\* value || null, for a text: the set of the text, empty for null
orNull(value) == IF value = <<>> THEN {} ELSE {value}

\* The data each update handler hands to autoSave.
updateTeeth(value) == Body("teeth_brushed" :> (IF value THEN 1 ELSE 0), NoMeds, NoMeals)

updateCount(field, value) == Body(field :> (IF value > 0 THEN value ELSE 0), NoMeds, NoMeals)

updateComment(field, value) == Body(field :> orNull(value), NoMeds, NoMeals)

\* updateMedication of the page
toggleMedication(medId, taken) == Body(NoFields, <<Med(medId, taken)>>, NoMeals)

updateMealStatus(slot, status) == Body(NoFields, NoMeds, <<Meal(slot, status, {})>>)

updateMealDefault(meal, slot, amount) ==
    Body(NoFields, NoMeds, <<Meal(slot, meal.status, {amount})>>)

\* actual_amount and comment are columns the store of the model leaves out.
updateMealActual(meal, slot) == Body(NoFields, NoMeds, <<Meal(slot, meal.status, {})>>)

updateMealComment(meal, slot) == Body(NoFields, NoMeds, <<Meal(slot, meal.status, {})>>)

updateNotes(value) == Body("daily_notes" :> orNull(value), NoMeds, NoMeals)

\* A getDayData request of loadData: answer is <<>> until the server has
\* handled it, then the DayData answered; from tells the loadData call of
\* handleAddMed from the others.
getDayData(date, from, answer) ==
    SetToBag({[date |-> date, from |-> from, answer |-> answer]})

\* An addMedication or deleteMedication request of the page.
medicationRequest(op, med, isHandled) ==
    SetToBag({[op |-> op, med |-> med, handled |-> isHandled]})

\* The page is mounted on the date getInitialDate() gives: onMount runs
\* loadData and the first run of the $effect runs it again, so two getDayData
\* requests of that date are on their way.
InitClient ==
    /\ NoImport
    /\ dayData = [vomited |-> 0, peed |-> 0, pooped |-> 0, meals |-> <<>>]
    /\ ret = "none"
    /\ prev = "none"
    /\ cleared = "none"
    /\ db = EmptyDb
    /\ nOps = 0
    /\ lastOp = NoOp
    /\ lastWrite = NoWrites
    /\ currentDate \in RequestDates
    /\ pageData = <<>>
    /\ loading = TRUE
    /\ error = FALSE
    /\ showAddMed = FALSE
    /\ saveTimeout = <<>>
    /\ edits = <<>>
    /\ sent = <<>>
    /\ pendingPuts = {}
    /\ putAnswers = {}
    /\ pendingGets = getDayData(currentDate, "page", <<>>)
                     (+) getDayData(currentDate, "page", <<>>)
    /\ pendingMeds = EmptyBag
    /\ nNavs = 0
    /\ nMeds = 0
    /\ nFails = 0
    /\ nClicks = 0

serverVars == <<db, nOps, lastOp, lastWrite, statusVars>>

\* The block of the template that shows the day: {:else if dayData}
Shown == ~loading /\ ~error /\ pageData # <<>>

\* autoSave(data): the timer that is set is cleared and a new one is set for
\* the data of this edit alone. field names the control that was used.
autoSave(field, data) ==
    /\ nClicks < MaxClicks
    /\ nClicks' = nClicks + 1
    /\ Len(edits) < MaxEdits
    /\ saveTimeout' = <<data>>
    /\ edits' = Append(edits, [date |-> currentDate, field |-> field, data |-> data])
    /\ UNCHANGED <<currentDate, pageData, loading, error, showAddMed, sent, pendingPuts,
                   putAnswers, pendingGets, pendingMeds, nNavs, nMeds, nFails,
                   serverVars, importVars>>

\* onclick={() => updateTeeth(!dayData?.teeth_brushed)}
TeethClick ==
    /\ Shown
    /\ autoSave(<<"teeth_brushed">>, updateTeeth(pageData[1].record.teeth_brushed = 0))

\* onclick={() => updateCount(item.field, value - 1)} and the one of value + 1
CountClick ==
    /\ Shown
    /\ \E field \in EditedCounts, step \in {-1, 1} :
          autoSave(<<field>>, updateCount(field, pageData[1].record[field] + step))

\* onchange={(e) => updateComment(`${item.field}_comment`, e.currentTarget.value)}
CommentChange ==
    /\ Shown
    /\ \E field \in EditedComments, value \in Texts \ {<<>>} :
          autoSave(<<field>>, updateComment(field, value))

\* onclick={() => updateMedication(med.id, !med.taken)}, for a medication shown
MedicationClick ==
    /\ Shown
    /\ \E medId \in EditedMedications \cap DOMAIN pageData[1].medications :
          autoSave(<<"medication", medId>>,
                   toggleMedication(medId, pageData[1].medications[medId] = 0))

\* onchange={(e) => updateMedication(med.id, !!med.taken, e.currentTarget.value)},
\* the comment field of a medication shown, which toggleComment opens: the
\* value of taken that is shown is sent with the comment. comment is a column
\* the store of the model leaves out.
MedicationCommentChange ==
    /\ Shown
    /\ \E medId \in EditedMedications \cap DOMAIN pageData[1].medications :
          autoSave(<<"medication", medId, "comment">>,
                   toggleMedication(medId, pageData[1].medications[medId] # 0))

\* onchange={(e) => updateMealStatus(meal.meal_slot, e.currentTarget.value)}:
\* another status is selected. The handler returns when dayData has no
\* meal of the slot; getFullDayData answers one for every slot.
MealStatusChange ==
    /\ Shown
    /\ \E slot \in EditedSlots \cap DOMAIN pageData[1].meals, status \in EditedStatuses :
          /\ status # pageData[1].meals[slot].status
          /\ autoSave(<<"meal", slot, "status">>, updateMealStatus(slot, status))

\* onchange={(e) => updateMealDefault(meal.meal_slot, parseInt(...) || 0)}
MealDefaultChange ==
    /\ Shown
    /\ \E slot \in EditedSlots \cap DOMAIN pageData[1].meals, amount \in EditedAmounts :
          autoSave(<<"meal", slot, "default">>,
                   updateMealDefault(pageData[1].meals[slot], slot, amount))

\* onchange={(e) => updateMealActual(meal.meal_slot, parseInt(...) || undefined)}
MealActualChange ==
    /\ Shown
    /\ \E slot \in EditedSlots \cap DOMAIN pageData[1].meals :
          autoSave(<<"meal", slot, "actual">>,
                   updateMealActual(pageData[1].meals[slot], slot))

\* onchange={(e) => updateMealComment(meal.meal_slot, e.currentTarget.value)}
MealCommentChange ==
    /\ Shown
    /\ \E slot \in EditedSlots \cap DOMAIN pageData[1].meals :
          autoSave(<<"meal", slot, "comment">>,
                   updateMealComment(pageData[1].meals[slot], slot))

\* onchange={(e) => updateNotes(e.currentTarget.value)}
NotesChange ==
    /\ Shown
    /\ \E value \in {<<>>} : autoSave(<<"daily_notes">>, updateNotes(value))

\* The 300 ms are over: updateDayData(currentDate, data) is sent, currentDate
\* being read now. The edit the data came from is the last one made.
TimerFires ==
    /\ saveTimeout # <<>>
    /\ sent' = Append(sent, [date |-> currentDate, data |-> saveTimeout[1],
                             edit |-> Len(edits)])
    /\ pendingPuts' = pendingPuts \cup {Len(sent) + 1}
    /\ saveTimeout' = <<>>
    /\ UNCHANGED <<nClicks, currentDate, pageData, loading, error, showAddMed, edits, putAnswers,
                   pendingGets, pendingMeds, nNavs, nMeds, nFails,
                   serverVars, importVars>>

\* loadData() up to its await: a getDayData request of the date displayed.
loadData(date, from) ==
    /\ loading' = TRUE
    /\ error' = FALSE
    /\ pendingGets' = pendingGets (+) getDayData(date, from, <<>>)

\* currentDate changes, and the $effect runs loadData on the new date.
Navigate(date) ==
    /\ nClicks < MaxClicks
    /\ nClicks' = nClicks + 1
    /\ nNavs < MaxNavs
    /\ date \in Dates
    /\ date # currentDate
    /\ nNavs' = nNavs + 1
    /\ currentDate' = date
    /\ loadData(date, "page")
    /\ UNCHANGED <<pageData, showAddMed, saveTimeout, edits, sent, pendingPuts, putAnswers,
                   pendingMeds, nMeds, nFails, serverVars, importVars>>

prevDay == Navigate(currentDate - 1)

nextDay == Navigate(currentDate + 1)

goToday == Navigate(getTodayString)

\* The Retry button of the error block: onclick={loadData}
Retry ==
    /\ nClicks < MaxClicks
    /\ nClicks' = nClicks + 1
    /\ ~loading /\ error
    /\ loadData(currentDate, "page")
    /\ UNCHANGED <<currentDate, pageData, showAddMed, saveTimeout, edits, sent,
                   pendingPuts, putAnswers, pendingMeds, nNavs, nMeds, nFails,
                   serverVars, importVars>>

\* onclick={() => showAddMed = true}, the + of the medications card
OpenAddMed ==
    /\ nClicks < MaxClicks
    /\ nClicks' = nClicks + 1
    /\ Shown
    /\ ~showAddMed
    /\ showAddMed' = TRUE
    /\ UNCHANGED <<currentDate, pageData, loading, error, saveTimeout, edits, sent,
                   pendingPuts, putAnswers, pendingGets, pendingMeds, nNavs,
                   nMeds, nFails, serverVars, importVars>>

\* onclick={() => showAddMed = false}, the X and the Cancel of the dialog,
\* which is shown whenever showAddMed is set, whatever the page shows.
CloseAddMed ==
    /\ nClicks < MaxClicks
    /\ nClicks' = nClicks + 1
    /\ showAddMed
    /\ showAddMed' = FALSE
    /\ UNCHANGED <<currentDate, pageData, loading, error, saveTimeout, edits, sent,
                   pendingPuts, putAnswers, pendingGets, pendingMeds, nNavs,
                   nMeds, nFails, serverVars, importVars>>

\* handleAddMed up to its first await, with a name that is not blank (it
\* returns on a blank one): addMedication is sent.
handleAddMed ==
    /\ nClicks < MaxClicks
    /\ nClicks' = nClicks + 1
    /\ showAddMed
    /\ nMeds < MaxMeds
    /\ nMeds' = nMeds + 1
    /\ \E m \in NewMedications :
          pendingMeds' = pendingMeds (+) medicationRequest("POST", m, FALSE)
    /\ UNCHANGED <<currentDate, pageData, loading, error, showAddMed, saveTimeout, edits,
                   sent, pendingPuts, putAnswers, pendingGets, nNavs, nFails,
                   serverVars, importVars>>

\* handleDeleteMed(med.id) up to its first await, for a medication shown and
\* a confirm() that is accepted: deleteMedication is sent.
handleDeleteMed ==
    /\ nClicks < MaxClicks
    /\ nClicks' = nClicks + 1
    /\ Shown
    /\ nMeds < MaxMeds
    /\ nMeds' = nMeds + 1
    /\ \E medId \in EditedMedications \cap DOMAIN pageData[1].medications :
          pendingMeds' = pendingMeds (+) medicationRequest("DELETE", medId, FALSE)
    /\ UNCHANGED <<currentDate, pageData, loading, error, showAddMed, saveTimeout, edits,
                   sent, pendingPuts, putAnswers, pendingGets, nNavs, nFails,
                   serverVars, importVars>>

\* The server serves one updateDayData request (PUT /api/day/:date); its
\* answer, the DayData of the date, is on its way to the page. A request of
\* the page names the medications of a DayData, which the table holds, so
\* the handler does not throw.
ServePut(i) ==
    /\ i \in pendingPuts
    /\ LET r == putDay(db, sent[i].date, sent[i].data)
       IN  /\ db' = r.db
           /\ lastWrite' = writesOfMeals(lastWrite, sent[i].date, sent[i].data.meals)
           /\ putAnswers' = putAnswers
                  \cup {[put |-> i, answer |-> dayDataOf(getFullDayData(r.db, sent[i].date))]}
    /\ pendingPuts' = pendingPuts \ {i}
    /\ UNCHANGED <<nClicks, currentDate, pageData, loading, error, showAddMed, saveTimeout, edits,
                   sent, pendingGets, pendingMeds, nNavs, nMeds, nFails, nOps, lastOp,
                   statusVars, importVars>>

\* The timer callback goes on after its await: dayData = await updateDayData(...)
updateDayDataAnswered(a) ==
    /\ a \in putAnswers
    /\ pageData' = <<a.answer>>
    /\ putAnswers' = putAnswers \ {a}
    /\ UNCHANGED <<nClicks, currentDate, loading, error, showAddMed, saveTimeout, edits, sent,
                   pendingPuts, pendingGets, pendingMeds, nNavs, nMeds, nFails,
                   serverVars, importVars>>

\* updateDayData throws: the request did not reach the server, or the server
\* handled it and the answer is lost. The catch of the timer callback logs
\* it, and the data displayed stay.
updateDayDataFailed ==
    /\ nFails < MaxFails
    /\ nFails' = nFails + 1
    /\ nClicks < MaxClicks
    /\ nClicks' = nClicks + 1
    /\ \/ \E i \in pendingPuts :
             pendingPuts' = pendingPuts \ {i} /\ UNCHANGED putAnswers
       \/ \E a \in putAnswers :
             putAnswers' = putAnswers \ {a} /\ UNCHANGED pendingPuts
    /\ UNCHANGED <<currentDate, pageData, loading, error, showAddMed, saveTimeout, edits,
                   sent, pendingGets, pendingMeds, nNavs, nMeds, serverVars, importVars>>

\* The server handles one getDayData request (GET /api/day/:date); the answer
\* is on its way to the page.
ServeGet(g) ==
    /\ BagIn(g, pendingGets)
    /\ g.answer = <<>>
    /\ LET full == getFullDayData(db, g.date)
       IN  /\ db' = full.db
           /\ pendingGets' = (pendingGets (-) SetToBag({g}))
                             (+) getDayData(g.date, g.from, <<dayDataOf(full)>>)
    /\ UNCHANGED <<nClicks, currentDate, pageData, loading, error, showAddMed, saveTimeout, edits,
                   sent, pendingPuts, putAnswers, pendingMeds, nNavs, nMeds,
                   nFails, nOps, lastOp, lastWrite, statusVars, importVars>>

\* loadData goes on after its await: the answer of one request has arrived,
\* the data displayed are replaced by it and loading is set to false,
\* whichever date is displayed and whichever requests are still on their way.
\* When handleAddMed awaited it (from "add"), handleAddMed goes on and closes
\* its dialog.
loadDataAnswered(g) ==
    /\ BagIn(g, pendingGets)
    /\ g.answer # <<>>
    /\ pendingGets' = pendingGets (-) SetToBag({g})
    /\ pageData' = g.answer
    /\ loading' = FALSE
    /\ showAddMed' = IF g.from = "add" THEN FALSE ELSE showAddMed
    /\ UNCHANGED <<nClicks, currentDate, error, saveTimeout, edits, sent, pendingPuts, putAnswers,
                   pendingMeds, nNavs, nMeds, nFails, serverVars, importVars>>

\* getDayData throws: the request did not reach the server, or the server
\* handled it and the answer is lost. The catch of loadData sets error, its
\* finally sets loading to false.
loadDataFailed(g) ==
    /\ BagIn(g, pendingGets)
    /\ nFails < MaxFails
    /\ nFails' = nFails + 1
    /\ nClicks < MaxClicks
    /\ nClicks' = nClicks + 1
    /\ pendingGets' = pendingGets (-) SetToBag({g})
    /\ error' = TRUE
    /\ loading' = FALSE
    /\ showAddMed' = IF g.from = "add" THEN FALSE ELSE showAddMed
    /\ UNCHANGED <<currentDate, pageData, saveTimeout, edits, sent, pendingPuts,
                   putAnswers, pendingMeds, nNavs, nMeds, serverVars, importVars>>

\* The server serves one request of the medications: POST /api/medications
\* or DELETE /api/medications/:id.
ServeMedication(m) ==
    /\ BagIn(m, pendingMeds)
    /\ ~m.handled
    /\ db' = IF m.op = "POST" THEN addMedication(db, m.med[1], m.med[2])
             ELSE deactivateMedication(db, m.med)
    /\ pendingMeds' = (pendingMeds (-) SetToBag({m}))
                      (+) medicationRequest(m.op, m.med, TRUE)
    /\ UNCHANGED <<nClicks, currentDate, pageData, loading, error, showAddMed, saveTimeout, edits,
                   sent, pendingPuts, putAnswers, pendingGets, nNavs, nMeds,
                   nFails, nOps, lastOp, lastWrite, statusVars, importVars>>

\* handleAddMed and handleDeleteMed go on after their first await: loadData()
\* is called on the date displayed now.
medicationAnswered(m) ==
    /\ BagIn(m, pendingMeds)
    /\ m.handled
    /\ pendingMeds' = pendingMeds (-) SetToBag({m})
    /\ loadData(currentDate, IF m.op = "POST" THEN "add" ELSE "page")
    /\ UNCHANGED <<nClicks, currentDate, pageData, showAddMed, saveTimeout, edits, sent,
                   pendingPuts, putAnswers, nNavs, nMeds, nFails,
                   serverVars, importVars>>

\* addMedication or deleteMedication throws: the request did not reach the
\* server, or the server handled it and the answer is lost. The catch logs
\* it, and that is all.
medicationFailed(m) ==
    /\ BagIn(m, pendingMeds)
    /\ nFails < MaxFails
    /\ nFails' = nFails + 1
    /\ nClicks < MaxClicks
    /\ nClicks' = nClicks + 1
    /\ pendingMeds' = pendingMeds (-) SetToBag({m})
    /\ UNCHANGED <<currentDate, pageData, loading, error, showAddMed, saveTimeout, edits,
                   sent, pendingPuts, putAnswers, pendingGets, nNavs, nMeds,
                   serverVars, importVars>>

ServePutStep == \E i \in pendingPuts : ServePut(i)

updateDayDataAnsweredStep == \E a \in putAnswers : updateDayDataAnswered(a)

ServeGetStep == \E g \in BagToSet(pendingGets) : ServeGet(g)

loadDataAnsweredStep == \E g \in BagToSet(pendingGets) : loadDataAnswered(g)

loadDataFailedStep == \E g \in BagToSet(pendingGets) : loadDataFailed(g)

ServeMedicationStep == \E m \in BagToSet(pendingMeds) : ServeMedication(m)

medicationAnsweredStep == \E m \in BagToSet(pendingMeds) : medicationAnswered(m)

medicationFailedStep == \E m \in BagToSet(pendingMeds) : medicationFailed(m)

NextClient ==
    \/ TeethClick \/ CountClick \/ CommentChange
    \/ MedicationClick \/ MedicationCommentChange
    \/ MealStatusChange \/ MealDefaultChange \/ MealActualChange \/ MealCommentChange
    \/ NotesChange \/ TimerFires
    \/ goToday \/ prevDay \/ nextDay \/ Retry
    \/ OpenAddMed \/ CloseAddMed \/ handleAddMed \/ handleDeleteMed
    \/ ServePutStep \/ updateDayDataAnsweredStep \/ updateDayDataFailed
    \/ ServeGetStep \/ loadDataAnsweredStep \/ loadDataFailedStep
    \/ ServeMedicationStep \/ medicationAnsweredStep \/ medicationFailedStep

SpecClient == InitClient /\ [][NextClient]_vars

----------------------------------------------------------------------------
(* Claims about the auto-save of the Today screen *)

\* C26: auto-save persists every edit: once no timer is set, the value of
\* each edit that no later edit of the same field follows has been sent in an
\* updateDayData request.
C26_EveryEditIsSent ==
    saveTimeout = <<>> =>
        \A i \in 1..Len(edits) :
            (\A j \in (i + 1)..Len(edits) : edits[j].field # edits[i].field)
            => \E k \in 1..Len(sent) : sent[k].data = edits[i].data

\* C30: an auto-save is written to the date that was displayed when the edit
\* was made: every updateDayData request targets the date of its edit.
C30_SavedToDateOfEdit ==
    \A k \in 1..Len(sent) : sent[k].date = edits[sent[k].edit].date

====
